---- MODULE Spec2Model ----
(***************************************************************************)
(* Settings panel of the yoga widget: tenant-identity resolution           *)
(* (services/wix-integration, utils/wixUtils), the authenticated request   *)
(* wrapper (services/api) and the settings form (App component).           *)
(*                                                                         *)
(* The repository holds several copies of some files.  The copy a          *)
(* behaviour runs is fixed in the initial state:                           *)
(*   integration = "wix-integration.ts"  src/src/services/wix-integration.ts*)
(*   integration = "part_003"            src/unnamed/part_003              *)
(*   utils = "wixUtils.ts"               src/src/utils/wixUtils.ts         *)
(*   utils = "part_000"                  src/unnamed/part_000              *)
(*   utils = "part_002"                  src/unnamed/part_002              *)
(*   app = "part_008"                    src/unnamed/part_008              *)
(*   app = "index.tsx"                   src/src/index.tsx (lines 14-798)  *)
(*   app = "part_009"                    src/unnamed/part_009              *)
(***************************************************************************)
EXTENDS Integers, Sequences, FiniteSets, TLC

\* ------------------------------------------------------------------ bounds
\* invocations of initializeWixClient: 1 = auto-initialisation at load of
\* wix-integration, 2 = initPromise at load of api.ts, 3.. = later callers
MaxInitCalls == 2
\* invocations of apiRequest
MaxRequests == 1
\* invocations of makeAuthenticatedRequest and rewrites of session storage
MaxCalls == 2
\* invocations of updateWidgetConfig / setWidgetProps
MaxWidgetCalls == 2
MaxInitWixRuns == 2
\* requests SimpleSettings sends: the GET on mount and the POSTs of handleSave
MaxSimpleRequests == 3
\* calls of setAuthInfo and buildDashboardUrl
MaxUrlCalls == 2
\* events the settings form handles: field changes, clicks on Save, loads
MaxEvents == 4

\* ------------------------------------------------------------------ values
\* JavaScript null / undefined
None == "null"
\* JavaScript truthiness of a string-or-null value
Truthy(x) == x # None /\ x # ""

InitCalls == 1..MaxInitCalls
Requests == 1..MaxRequests

Integrations == {"wix-integration.ts", "part_003"}

\* window.location.search of the panel: the query parameters the code reads
PageUrl(c, c2, i, v, d) ==
  [compId |-> c, comp_id |-> c2, instance |-> i, viewMode |-> v, deviceType |-> d]
PageUrls ==
  { PageUrl(None, None, None, None, None),
    PageUrl(None, None, "url-inst", None, None),
    PageUrl(None, None, "", None, None),
    PageUrl("url-comp", None, "url-inst", "editor", None),
    PageUrl(None, "url-comp_id", None, None, "mobile") }
\* the URLs that differ in what wix-integration reads (the instance parameter)
InstanceUrls == {u \in PageUrls : u.compId = None /\ u.comp_id = None}
\* values the host keeps in the widget props 'compId' and 'instance'
PropCompIds == {None, "site-comp"}
PropInstances == {None, "prop-inst"}

\* generateCompId: `comp-${Date.now()}-${random}`; the n-th id generated
GenIds == <<"comp-1-aaaaaaaa", "comp-2-bbbbbbbb", "comp-3-cccccccc", "comp-4-dddddddd">>
generateCompId(n) == IF n <= Len(GenIds) THEN GenIds[n] ELSE "comp-n-zzzzzzzz"
IsGenerated(id) == \E n \in 1..Len(GenIds) : GenIds[n] = id
\* getProp('compId') not awaited yet, or rejected
Unread == "unread"
Threw == "threw"

\* ------------------------------------------------------------------ state
VARIABLES
  integration,    \* which copy of wix-integration runs
  location,       \* window.location.search, a PageUrl
  sdk,            \* what the host SDK client exposes: [widget, fetchWithAuth]
  widgetProps,    \* the host's widget-property store
  wixClient,      \* module variable: None or "client"
  instanceToken,  \* module variable
  compId,         \* module variable
  isInitialized,  \* module variable
  genCount,       \* ids generated so far
  initPc,         \* position of each initializeWixClient invocation
  initRet,        \* its result: "pending", "true", "false", "threw"
  initArg,        \* the id its pending widget.setProp('compId', id) carries
  existingCompId, \* its local existingCompId: what getProp('compId') yielded
  reqPc,          \* position of each apiRequest invocation
  reqMethod,      \* its options.method
  sent,           \* the requests that left the panel
  utils,          \* which copy of utils/wixUtils runs
  sessionStorage, \* the entries wixCompId and wixInstance
  cachedAuthInfo, \* wixUtils module variable
  parentFrame,    \* window.parent and the URL readable from it
  authUpdates,    \* calls of setAuthInfo so far
  dashboard,      \* the calls of buildDashboardUrl: what each saw and returned
  app,            \* which copy of the App component runs
  settings,       \* useState: the settings document
  isSaving,       \* useState
  showSuccessMessage, \* useState
  panel,          \* useState: dashboardUrl, premiumPlan, instanceId
  toasts,         \* the toasts shown, oldest first
  edits,          \* the calls of updateSetting, oldest first
  pushes,         \* the updates handed to updateWidgetConfig, oldest first
  hostProps,      \* the host's widget-property store, preview and save keys
  save,           \* position of the running saveSettings and its closure
  posts,          \* the bodies posted to /settings/ui-preferences
  loads,          \* each loadSettings invocation, oldest first: pending, or
                  \* what its await yielded
  simpleInstanceId, \* SimpleSettings useState: instanceId
  loading,        \* SimpleSettings useState
  saving,         \* SimpleSettings useState
  simpleSettings, \* SimpleSettings useState: settings
  message,        \* SimpleSettings: the message div shown last, None before
  fetchPc,        \* SimpleSettings: "unmounted", "pending" or "done"
  widgetConfig,   \* the requests sent to /settings/widget-config, oldest first
  localStorage,   \* the entries wixCompId and wixInstance
  siteClient,     \* api.ts: what createClient({auth: site.auth()}) yields
  calls,          \* each makeAuthenticatedRequest invocation, oldest first
  outbound,       \* the requests makeAuthenticatedRequest sent, oldest first
  widgetCalls,    \* each updateWidgetConfig / setWidgetProps invocation, oldest first
  providerFile,   \* which copy of the WixProvider component runs
  wixHost,        \* window.Wix and what the dashboard SDK yields
  provider,       \* WixProvider useState: wixClient, instance, compId, ...
  initWixRuns     \* each initWix invocation, oldest first

identityVars == <<integration, location, sdk, widgetProps, wixClient,
                  instanceToken, compId, isInitialized, genCount,
                  initPc, initRet, initArg, existingCompId>>
requestVars == <<reqPc, reqMethod, sent>>
urlVars == <<utils, sessionStorage, cachedAuthInfo, parentFrame, authUpdates, dashboard>>
formVars == <<app, settings, isSaving, showSuccessMessage, panel, toasts, edits,
              pushes, hostProps, save, posts, loads>>
simpleVars == <<simpleInstanceId, loading, saving, simpleSettings, message, fetchPc,
                widgetConfig>>
clientVars == <<localStorage, siteClient, calls, outbound>>
providerVars == <<providerFile, wixHost, provider, initWixRuns>>
vars == <<identityVars, requestVars, urlVars, formVars, simpleVars, clientVars, widgetCalls,
          providerVars>>

\* ------------------------------------------------------------------ wix-integration
\* line 43 / part_003 line 34: the early return of initializeWixClient
alreadyInitialized ==
  IF integration = "wix-integration.ts"
  THEN isInitialized
  ELSE isInitialized /\ wixClient # None

\* lines 58 and 82: wixClient.widget && wixClient.widget.getProp / setProp
hasWidgetGetProp == sdk.widget
hasWidgetSetProp == sdk.widget

\* the id is generated and saved whether or not one is held
GenerateIfMissing_Always(i, held) ==
  /\ compId' = generateCompId(genCount + 1)
  /\ genCount' = genCount + 1
  /\ IF hasWidgetSetProp
     THEN /\ initPc' = [initPc EXCEPT ![i] = "setProp"]
          /\ initArg' = [initArg EXCEPT ![i] = generateCompId(genCount + 1)]
          /\ UNCHANGED <<isInitialized, initRet>>
     ELSE /\ initPc' = [initPc EXCEPT ![i] = "done"]
          /\ initRet' = [initRet EXCEPT ![i] = "true"]
          /\ isInitialized' = TRUE
          /\ UNCHANGED initArg

\* lines 78-90: generate an id when none is held and start saving it;
\* `held` is the compId after the reads, `i` the invocation
\* (the rest of the try block, lines 100-101, follows when nothing is awaited)
GenerateIfMissing(i, held) ==
  IF ~Truthy(held)
  THEN /\ compId' = generateCompId(genCount + 1)
       /\ genCount' = genCount + 1
       /\ IF hasWidgetSetProp
          THEN /\ initPc' = [initPc EXCEPT ![i] = "setProp"]
               /\ initArg' = [initArg EXCEPT ![i] = generateCompId(genCount + 1)]
               /\ UNCHANGED <<isInitialized, initRet>>
          ELSE /\ initPc' = [initPc EXCEPT ![i] = "done"]
               /\ initRet' = [initRet EXCEPT ![i] = "true"]
               /\ isInitialized' = TRUE
               /\ UNCHANGED initArg
  ELSE /\ compId' = held
       /\ initPc' = [initPc EXCEPT ![i] = "done"]
       /\ initRet' = [initRet EXCEPT ![i] = "true"]
       /\ isInitialized' = TRUE
       /\ UNCHANGED <<genCount, initArg>>

\* the catch block without the fallback id of lines 106-109
InitCatch_NoFallback(i) ==
  /\ isInitialized' = TRUE
  /\ initPc' = [initPc EXCEPT ![i] = "done"]
  /\ initRet' = [initRet EXCEPT ![i] = "false"]
  /\ UNCHANGED <<wixClient, initArg, compId, genCount>>

\* lines 102-113: the catch block of initializeWixClient
InitCatch(i) ==
  /\ IF ~Truthy(compId)
     THEN /\ compId' = generateCompId(genCount + 1)
          /\ genCount' = genCount + 1
     ELSE UNCHANGED <<compId, genCount>>
  /\ isInitialized' = TRUE
  /\ initPc' = [initPc EXCEPT ![i] = "done"]
  /\ initRet' = [initRet EXCEPT ![i] = "false"]
  /\ UNCHANGED <<wixClient, initArg>>

\* lines 42-60: initializeWixClient up to its first await
\* (instanceToken is left to the caller: the module load sets it)
initializeWixClient(i) ==
  /\ initPc[i] = "idle"
  /\ IF alreadyInitialized
     THEN /\ initPc' = [initPc EXCEPT ![i] = "done"]
          /\ initRet' = [initRet EXCEPT ![i] = "true"]
          /\ UNCHANGED <<wixClient, compId, isInitialized, genCount, initArg>>
     ELSE \E created \in BOOLEAN :
            IF ~created
            THEN InitCatch(i)                       \* createClient throws
            ELSE /\ wixClient' = "client"
                 /\ IF hasWidgetGetProp
                    THEN /\ initPc' = [initPc EXCEPT ![i] = "getCompId"]
                         /\ UNCHANGED <<compId, isInitialized, genCount, initRet, initArg>>
                    ELSE GenerateIfMissing(i, compId)
  /\ UNCHANGED <<integration, location, sdk, widgetProps, existingCompId>>

\* lines 14-24 and 204-206: load of the module
LoadWixIntegration ==
  /\ LET urlInstance == location.instance
     IN instanceToken' = IF Truthy(urlInstance) THEN urlInstance ELSE instanceToken
  /\ initializeWixClient(1)
  /\ UNCHANGED <<requestVars, urlVars, formVars, simpleVars, clientVars, widgetCalls, providerVars>>

\* api.ts line 384: const initPromise = initializeWixClient() is invocation 2;
\* invocations 3.. are later callers of the exported function
LaterInitCall(i) ==
  /\ i >= 2
  /\ initPc[i - 1] # "idle"
  /\ initializeWixClient(i)
  /\ UNCHANGED <<instanceToken, requestVars, urlVars, formVars, simpleVars, clientVars,
                 widgetCalls, providerVars>>

\* the value read from the widget prop 'compId' is not taken over
GetCompIdSettles_Discards(i) ==
  /\ initPc[i] = "getCompId"
  /\ existingCompId' = [existingCompId EXCEPT ![i] = widgetProps.compId]
  /\ GenerateIfMissing(i, compId)
  /\ UNCHANGED <<integration, location, sdk, widgetProps, wixClient,
                 instanceToken, requestVars, urlVars, formVars, simpleVars, clientVars,
                 widgetCalls, providerVars>>

\* lines 60-75: `await widget.getProp('compId')` settles
GetCompIdSettles(i) ==
  /\ initPc[i] = "getCompId"
  /\ \E ok \in BOOLEAN :
       IF ok
       THEN LET existing == widgetProps.compId
                held == IF Truthy(existing) THEN existing ELSE compId
            IN /\ existingCompId' = [existingCompId EXCEPT ![i] = existing]
               /\ IF integration = "wix-integration.ts"
                  THEN /\ compId' = held
                       /\ initPc' = [initPc EXCEPT ![i] = "getInstance"]
                       /\ UNCHANGED <<isInitialized, genCount, initRet, initArg>>
                  ELSE GenerateIfMissing(i, held)
       ELSE /\ existingCompId' = [existingCompId EXCEPT ![i] = Threw]
            /\ GenerateIfMissing(i, compId)          \* inner catch, lines 72-74
  /\ UNCHANGED <<integration, location, sdk, widgetProps, wixClient,
                 instanceToken, requestVars, urlVars, formVars, simpleVars, clientVars,
                 widgetCalls, providerVars>>

\* the read of the widget prop 'instance' without the `!instanceToken` of line 68
GetInstanceSettles_Overwrite(i) ==
  /\ initPc[i] = "getInstance"
  /\ \E ok \in BOOLEAN :
       /\ instanceToken' =
            IF ok /\ Truthy(widgetProps.instance)
            THEN widgetProps.instance
            ELSE instanceToken
       /\ GenerateIfMissing(i, compId)
  /\ UNCHANGED <<integration, location, sdk, widgetProps, wixClient, existingCompId,
                 requestVars, urlVars, formVars, simpleVars, clientVars, widgetCalls, providerVars>>

\* lines 66-75: `await widget.getProp('instance')` settles (wix-integration.ts only)
GetInstanceSettles(i) ==
  /\ initPc[i] = "getInstance"
  /\ \E ok \in BOOLEAN :
       /\ instanceToken' =
            IF ok /\ Truthy(widgetProps.instance) /\ ~Truthy(instanceToken)
            THEN widgetProps.instance
            ELSE instanceToken
       /\ GenerateIfMissing(i, compId)
  /\ UNCHANGED <<integration, location, sdk, widgetProps, wixClient, existingCompId,
                 requestVars, urlVars, formVars, simpleVars, clientVars, widgetCalls, providerVars>>

\* lines 83-101: `await widget.setProp('compId', compId)` settles
SetCompIdSettles(i) ==
  /\ initPc[i] = "setProp"
  /\ \E ok \in BOOLEAN :
       widgetProps' = IF ok THEN [widgetProps EXCEPT !.compId = initArg[i]]
                      ELSE widgetProps
  /\ isInitialized' = TRUE
  /\ initPc' = [initPc EXCEPT ![i] = "done"]
  /\ initRet' = [initRet EXCEPT ![i] = "true"]
  /\ UNCHANGED <<integration, location, sdk, wixClient, instanceToken, existingCompId,
                 compId, genCount, initArg, requestVars, urlVars, formVars, simpleVars,
                 clientVars, widgetCalls, providerVars>>

\* ------------------------------------------------------------------ api.ts (lines 368-688)
Methods == {"GET", "POST"}

\* the instance tokens of the model and the header `Bearer ${instanceToken}`
BearerOf == [t \in {"url-inst", "prop-inst"} |->
               IF t = "url-inst" THEN "Bearer url-inst" ELSE "Bearer prop-inst"]
\* part_003 line 124: instanceToken.startsWith('Bearer ') ? instanceToken : `Bearer ${instanceToken}`
AuthorizationHeader(t) == IF t \in DOMAIN BearerOf THEN BearerOf[t] ELSE t

\* apiRequest without `await initPromise`
initPromiseSettled_NoAwait == TRUE

\* api.ts line 389: await initPromise
initPromiseSettled == initPc[2] = "done"

\* the request fetchWithAuth hands to the SDK or to fetch;
\* heldCompId, heldToken, sdkAvailable and afterInit record the moment of sending
Outgoing(k, via, authorization) ==
  [req |-> k, method |-> reqMethod[k], via |-> via,
   compIdHeader |-> IF Truthy(compId) THEN compId ELSE None,
   authorization |-> authorization,
   heldCompId |-> compId,
   heldToken |-> instanceToken,
   sdkAvailable |-> wixClient # None /\ sdk.fetchWithAuth,
   afterInit |-> \E i \in InitCalls : initPc[i] = "done"]

\* wix-integration.ts lines 138-140: the plain fetch carries fetchOptions as built
\* part_003 lines 122-127: it adds the Authorization header when a token is held
PlainAuthorization ==
  IF integration = "part_003" /\ Truthy(instanceToken)
  THEN AuthorizationHeader(instanceToken)
  ELSE None

\* api.ts lines 387-389: apiRequest is called and waits for initPromise
apiRequest(k, m) ==
  /\ reqPc[k] = "idle"
  /\ initPc[2] # "idle"
  /\ reqPc' = [reqPc EXCEPT ![k] = "awaitInit"]
  /\ reqMethod' = [reqMethod EXCEPT ![k] = m]
  /\ UNCHANGED <<identityVars, urlVars, formVars, simpleVars, clientVars, widgetCalls,
                 providerVars, sent>>

\* api.ts lines 391-392 with fetchWithAuth (wix-integration.ts lines 119-141,
\* part_003 lines 90-128) up to the request leaving; part_003 lines 92-95 wait
\* for an initialisation when none has completed
fetchWithAuth(k) ==
  /\ reqPc[k] = "awaitInit"
  /\ initPromiseSettled
  /\ integration = "part_003" => isInitialized
  /\ IF wixClient # None /\ sdk.fetchWithAuth
     THEN /\ sent' = sent \cup {Outgoing(k, "sdk", None)}
          /\ reqPc' = [reqPc EXCEPT ![k] = "sdkPending"]
     ELSE /\ sent' = sent \cup {Outgoing(k, "plain", PlainAuthorization)}
          /\ reqPc' = [reqPc EXCEPT ![k] = "plainPending"]
  /\ UNCHANGED <<identityVars, urlVars, formVars, simpleVars, clientVars, widgetCalls, providerVars,
                 reqMethod>>

\* wixClient.fetchWithAuth settles: a response (ok or not) or a rejection.
\* wix-integration.ts line 135 lets the rejection through; part_003 lines
\* 115-127 catch it and send the request with plain fetch.
\* api.ts lines 394-399: a response that is not ok makes apiRequest throw.
SdkFetchSettles(k) ==
  /\ reqPc[k] = "sdkPending"
  /\ \E outcome \in {"ok", "notOk", "rejects"} :
       IF outcome = "rejects" /\ integration = "part_003"
       THEN /\ sent' = sent \cup {Outgoing(k, "plain", PlainAuthorization)}
            /\ reqPc' = [reqPc EXCEPT ![k] = "plainPending"]
       ELSE /\ reqPc' = [reqPc EXCEPT ![k] = IF outcome = "ok" THEN "returned" ELSE "threw"]
            /\ UNCHANGED sent
  /\ UNCHANGED <<identityVars, urlVars, formVars, simpleVars, clientVars, widgetCalls, providerVars,
                 reqMethod>>

\* the plain fetch settles; api.ts lines 394-399
PlainFetchSettles(k) ==
  /\ reqPc[k] = "plainPending"
  /\ \E outcome \in {"ok", "notOk", "rejects"} :
       reqPc' = [reqPc EXCEPT ![k] = IF outcome = "ok" THEN "returned" ELSE "threw"]
  /\ UNCHANGED <<identityVars, urlVars, formVars, simpleVars, clientVars, widgetCalls, providerVars,
                 reqMethod, sent>>

\* ------------------------------------------------------------------ utils/wixUtils
UtilsCopies == {"wixUtils.ts", "part_000", "part_002"}

\* JavaScript a || b
JsOr(a, b) == IF Truthy(a) THEN a ELSE b

\* AuthInfo of part_000 / part_002 (isAuthenticated is only logged);
\* null: the value is null or undefined, not an object
AuthInfo(c, t, iid) == [null |-> FALSE, compId |-> c, instanceToken |-> t, instanceId |-> iid]
NullAuthInfo == [null |-> TRUE, compId |-> None, instanceToken |-> None, instanceId |-> None]
\* the auth blocks an API response can hold
AuthInfos ==
  { AuthInfo("api-comp", "api-inst", "api-iid"),
    AuthInfo("api-comp", None, None),
    AuthInfo(None, None, None) }

\* sessionStorage as WixProvider or an earlier setAuthInfo left it
SessionStorages ==
  { [wixCompId |-> None, wixInstance |-> None],
    [wixCompId |-> "sess-comp", wixInstance |-> "sess-inst"] }

\* window.parent: the panel is the top window, or sits in a frame whose URL
\* (document.referrer || window.parent.location.href) is readable or not
ParentFrames ==
  { [framed |-> FALSE, readable |-> FALSE, compId |-> None, instance |-> None],
    [framed |-> TRUE, readable |-> FALSE, compId |-> None, instance |-> None],
    [framed |-> TRUE, readable |-> TRUE, compId |-> "parent-comp", instance |-> None] }

BaseUrls == {None, "https://dash.example"}
\* process.env.REACT_APP_DASHBOARD_URL || 'http://localhost:3002'
DefaultDashboardUrl == "http://localhost:3002"

\* a dashboard URL: its origin and the search parameters set on it
DashboardUrl(b, c, i, iid, v, d) ==
  [base |-> b, compId |-> c, instance |-> i, instanceId |-> iid,
   viewMode |-> v, deviceType |-> d]
\* url.searchParams.set(name, value) only under `if (value)`
IfSet(x) == IF Truthy(x) THEN x ELSE None

\* the calls of setAuthInfo and buildDashboardUrl so far
UrlCalls == authUpdates + Cardinality(dashboard)

\* every entry is overwritten, also by an empty field
mirrorAuthInfo_Clears(a) ==
  [wixCompId |-> a.compId, wixInstance |-> a.instanceToken]

\* part_002 lines 28-34 (part_000 lines 27-33): session storage after setAuthInfo
mirrorAuthInfo(a) ==
  [wixCompId |-> IF Truthy(a.compId) THEN a.compId ELSE sessionStorage.wixCompId,
   wixInstance |-> IF Truthy(a.instanceToken) THEN a.instanceToken
                   ELSE sessionStorage.wixInstance]

\* part_002 lines 26-40 (part_000 lines 25-39): setAuthInfo
setAuthInfo(a) ==
  /\ utils # "wixUtils.ts"
  /\ UrlCalls < MaxUrlCalls
  /\ authUpdates' = authUpdates + 1
  /\ cachedAuthInfo' = a
  /\ sessionStorage' = mirrorAuthInfo(a)
  /\ UNCHANGED <<identityVars, requestVars, formVars, simpleVars, clientVars, widgetCalls,
                 providerVars,
                 utils,
                 parentFrame, dashboard>>

\* wixUtils.ts lines 15-24: getWixParams
getWixParams ==
  [compId |-> JsOr(JsOr(location.compId, location.comp_id), None),
   instance |-> JsOr(location.instance, None),
   viewMode |-> JsOr(location.viewMode, None),
   deviceType |-> JsOr(location.deviceType, None)]

\* wixUtils.ts lines 89-113 (part_000 lines 125-149): nothing found for either
\* field: the parameters of the parent frame's URL, else the bare URL
ParentFallback(dashboardUrl) ==
  IF /\ parentFrame.framed
     /\ parentFrame.readable
     /\ Truthy(parentFrame.compId) \/ Truthy(parentFrame.instance)
  THEN DashboardUrl(dashboardUrl, IfSet(parentFrame.compId), IfSet(parentFrame.instance),
                    None, None, None)
  ELSE DashboardUrl(dashboardUrl, None, None, None, None, None)

\* wixUtils.ts lines 57-123: buildDashboardUrl(baseUrl)
buildDashboardUrl_wixUtils(baseUrl) ==
  LET dashboardUrl == JsOr(baseUrl, DefaultDashboardUrl)
      storedCompId == sessionStorage.wixCompId
      storedInstance == sessionStorage.wixInstance
      urlParams == getWixParams
      currentCompId == JsOr(location.compId, location.comp_id)
      currentInstance == location.instance
      compIdFound == JsOr(JsOr(storedCompId, urlParams.compId), currentCompId)
      instanceFound == JsOr(JsOr(storedInstance, urlParams.instance), currentInstance)
  IN IF ~Truthy(compIdFound) /\ ~Truthy(instanceFound)
     THEN ParentFallback(dashboardUrl)
     ELSE DashboardUrl(dashboardUrl, IfSet(compIdFound), IfSet(instanceFound), None,
                       IfSet(urlParams.viewMode), IfSet(urlParams.deviceType))

\* part_000 lines 91-159: buildDashboardUrl(baseUrl)
buildDashboardUrl_part000(baseUrl) ==
  LET dashboardUrl == JsOr(baseUrl, DefaultDashboardUrl)
      authInfo == cachedAuthInfo
      storedCompId == sessionStorage.wixCompId
      storedInstance == sessionStorage.wixInstance
      urlParams == getWixParams
      currentCompId == JsOr(location.compId, location.comp_id)
      currentInstance == location.instance
      compIdFound ==
        JsOr(JsOr(JsOr(authInfo.compId, storedCompId), urlParams.compId), currentCompId)
      instanceFound ==
        JsOr(JsOr(JsOr(authInfo.instanceToken, storedInstance), urlParams.instance),
             currentInstance)
  IN IF ~Truthy(compIdFound) /\ ~Truthy(instanceFound)
     THEN ParentFallback(dashboardUrl)
     ELSE DashboardUrl(dashboardUrl, IfSet(compIdFound), IfSet(instanceFound), None,
                       IfSet(urlParams.viewMode), IfSet(urlParams.deviceType))

\* part_002 lines 93-129: buildDashboardUrl(authInfo)
buildDashboardUrl_part002(authInfo) ==
  LET effectiveAuthInfo == IF authInfo.null THEN cachedAuthInfo ELSE authInfo
      urlParams == getWixParams
      compIdFound == JsOr(effectiveAuthInfo.compId, urlParams.compId)
      instanceFound == JsOr(effectiveAuthInfo.instanceToken, urlParams.instance)
      instanceId == effectiveAuthInfo.instanceId
  IN DashboardUrl(DefaultDashboardUrl, IfSet(compIdFound), IfSet(instanceFound),
                  IfSet(instanceId), None, None)

\* one call of buildDashboardUrl, in the copy that runs; the call is kept
\* with what it was given and what the storage and the cache held
Built(authInfo, baseUrl, url) ==
  [authInfo |-> authInfo, baseUrl |-> baseUrl, cached |-> cachedAuthInfo,
   stored |-> sessionStorage, url |-> url]

buildDashboardUrl(authInfo, baseUrl) ==
  /\ UrlCalls < MaxUrlCalls
  /\ initPc[1] # "idle"        \* the importing code runs after the module load
  /\ IF utils = "part_002"
     THEN /\ baseUrl = None
          /\ dashboard' = dashboard \cup
               {Built(authInfo, baseUrl, buildDashboardUrl_part002(authInfo))}
     ELSE /\ authInfo = NullAuthInfo
          /\ dashboard' = dashboard \cup
               {Built(authInfo, baseUrl,
                      IF utils = "part_000" THEN buildDashboardUrl_part000(baseUrl)
                      ELSE buildDashboardUrl_wixUtils(baseUrl))}
  /\ UNCHANGED <<identityVars, requestVars, formVars, simpleVars, clientVars, widgetCalls,
                 providerVars,
                 utils,
                 sessionStorage,
                 cachedAuthInfo, parentFrame, authUpdates>>

\* ------------------------------------------------------------------ App component
Apps == {"part_008", "index.tsx", "part_009"}

\* part_008 lines 41-88: the default settings document (values as JSON text)
DefaultLayout ==
  [defaultView |-> "yogaClasses", defaultMode |-> "calendar",
   defaultCalendarLayout |-> "month", calendarView |-> "month",
   showModeSwitcher |-> "true", showCalendarHeader |-> "true",
   headerTitle |-> "Yoga Classes", showFooter |-> "false", compactMode |-> "false",
   showCreatePlanOption |-> "true", showYogaClassesOption |-> "true",
   showInstructorInfo |-> "true", showClassDuration |-> "true",
   showClassLevel |-> "true", showBookingButton |-> "true",
   showWaitlistOption |-> "true"]
\* part_009 lines 74-100: its layout has these keys too
ExtraLayout_part009 ==
  [showHeader |-> "true", showMainHeader |-> "true", showCalendarToggle |-> "true",
   showLanguageSelector |-> "true", showThemeToggle |-> "true",
   showSearchBar |-> "true", showFilters |-> "true"]
DefaultAppearance ==
  [primaryColor |-> "#2563eb", backgroundColor |-> "#ffffff", headerColor |-> "#f8f9fa",
   borderRadius |-> "8", fontFamily |-> "default", fontSize |-> "medium"]
\* index.tsx lines 78-85 and part_009 lines 109-116
DefaultCalendar ==
  [weekStartsOn |-> "sunday", timeFormat |-> "12h", showWeekNumbers |-> "false",
   eventDisplay |-> "block", minTime |-> "06:00", maxTime |-> "22:00"]
DefaultBehavior ==
  [autoSave |-> "true", confirmBeforeDelete |-> "true", animationsEnabled |-> "true",
   showTooltips |-> "true", language |-> "en"]
DefaultUiPreferences == [clickAction |-> "tooltip"]

DefaultSettings(a) ==
  IF a = "part_008"
  THEN [layout |-> DefaultLayout, appearance |-> DefaultAppearance,
        calendar |-> ("showEventTime" :> "false") @@ DefaultCalendar,
        behavior |-> DefaultBehavior, uiPreferences |-> DefaultUiPreferences]
  ELSE IF a = "index.tsx"
  THEN [layout |-> DefaultLayout, appearance |-> DefaultAppearance,
        calendar |-> DefaultCalendar,
        behavior |-> DefaultBehavior, uiPreferences |-> DefaultUiPreferences]
  ELSE [layout |-> ExtraLayout_part009 @@ DefaultLayout, appearance |-> DefaultAppearance,
        calendar |-> DefaultCalendar, behavior |-> DefaultBehavior]

\* every (section, key) of the part_008 document
AllFields ==
  UNION {{<<sec, key>> : key \in DOMAIN DefaultSettings("part_008")[sec]} :
         sec \in DOMAIN DefaultSettings("part_008")}

\* the calls of updateSetting the form controls of the model make: a text
\* field and two checkboxes
EditCalls ==
  { <<"layout", "headerTitle", "Edited title">>,
    <<"behavior", "animationsEnabled", "false">>,
    <<"behavior", "autoSave", "false">> }

\* utils/wixUtils isWixEnvironment (part_002 lines 65-69)
isWixEnvironment ==
  LET params == getWixParams
  IN Truthy(params.instance) \/ Truthy(params.compId) \/ parentFrame.framed

\* part_008 lines 286-320: the widget prop a field is previewed under
\* (None: the field is not previewed)
PreviewKey(section, key) ==
  IF section = "appearance"
  THEN IF key \in {"primaryColor", "fontSize", "borderRadius"} THEN key ELSE None
  ELSE IF section = "layout"
  THEN IF key \in {"defaultView", "defaultMode", "defaultCalendarLayout", "calendarView",
                   "showModeSwitcher", "showCalendarHeader", "headerTitle", "compactMode",
                   "showCreatePlanOption", "showYogaClassesOption", "showInstructorInfo",
                   "showClassDuration", "showClassLevel", "showBookingButton",
                   "showWaitlistOption"}
       THEN key ELSE None
  ELSE IF section = "behavior"
  THEN IF key = "language" THEN "language"
       ELSE IF key = "animationsEnabled" THEN "animations" ELSE None
  ELSE IF section = "calendar"
  THEN IF key \in {"weekStartsOn", "timeFormat", "showEventTime"} THEN key ELSE None
  ELSE IF section = "uiPreferences"
  THEN IF key = "clickAction" THEN key ELSE None
  ELSE None

\* flattenedUpdate with the name of the section as a second entry
flattenedUpdate_WithSection(section, key, value) ==
  IF PreviewKey(section, key) = None THEN <<>>
  ELSE (PreviewKey(section, key) :> value) @@ ("section" :> section)

\* part_008 lines 288-320: flattenedUpdate, an object with at most one entry
flattenedUpdate(section, key, value) ==
  IF PreviewKey(section, key) = None THEN <<>>
  ELSE PreviewKey(section, key) :> value

\* the merge without `...prev[section]`: the section keeps the changed key only
newSettings_ReplacesSection(prev, section, key, value) ==
  (section :> (key :> value)) @@ prev

\* part_008 lines 278-284 (index.tsx lines 242-248, part_009 lines 170-176):
\* { ...prev, [section]: { ...prev[section], [key]: value } }
newSettings(prev, section, key, value) ==
  (section :> ((key :> value) @@ (IF section \in DOMAIN prev THEN prev[section] ELSE <<>>)))
    @@ prev

\* wix-integration.ts lines 146-161: updateWidgetConfig up to its first await,
\* called by the microtask of part_008 lines 324-328: refused without a client
\* or widget.setProp, else the setProp calls for the entries of config start
updateWidgetConfig(config) ==
  IF wixClient = None \/ ~hasWidgetSetProp THEN "refused"
  ELSE IF DOMAIN config = {} THEN "written"
  ELSE "pending"

\* the events handled so far
Events == Len(edits) + Len(posts) + Len(loads)

\* part_008 lines 276-333 (index.tsx lines 241-249, part_009 lines 169-177)
updateSetting(section, key, value) ==
  /\ Events < MaxEvents
  /\ settings' = newSettings(settings, section, key, value)
  /\ edits' = Append(edits, [section |-> section, key |-> key, value |-> value])
  /\ IF /\ app = "part_008"
        /\ DOMAIN flattenedUpdate(section, key, value) # {}
        /\ isWixEnvironment
     THEN pushes' = Append(pushes, [edit |-> Len(edits) + 1,
                                    config |-> flattenedUpdate(section, key, value),
                                    state |->
                                      updateWidgetConfig(flattenedUpdate(section, key, value))])
     ELSE UNCHANGED pushes
  /\ UNCHANGED <<identityVars, requestVars, simpleVars, clientVars, widgetCalls, providerVars,
                 urlVars,
                 app, isSaving,
                 showSuccessMessage,
                 panel, toasts, hostProps, save, posts, loads>>

\* wix-integration.ts lines 160-169: the setProp calls of one preview update
\* settle; a failure leaves the entry unwritten
PreviewSetPropSettles(j) ==
  /\ j \in 1..Len(pushes)
  /\ pushes[j].state = "pending"
  /\ \E ok \in BOOLEAN :
       /\ pushes' = [pushes EXCEPT ![j].state = IF ok THEN "written" ELSE "failed"]
       /\ hostProps' = IF ok THEN pushes[j].config @@ hostProps ELSE hostProps
  /\ UNCHANGED <<identityVars, requestVars, simpleVars, clientVars, widgetCalls, providerVars,
                 urlVars,
                 app, settings,
                 isSaving,
                 showSuccessMessage, panel, toasts, edits, save, posts, loads>>

\* JavaScript undefined: the value of a key an object does not have
Undefined == "undefined"
\* top-level keys of a response that hold a string, not an object
ScalarKeys == {"premiumPlanName"}

\* a body without the uiPreferences section
JSONstringify_DropsSection(doc) ==
  [s \in DOMAIN doc \ {"uiPreferences"} |-> doc[s]]

\* api.ts line 419: JSON.stringify(preferences) drops the keys whose value is
\* undefined and keeps every other key of every object
JSONstringify(doc) ==
  [s \in DOMAIN doc |->
     IF s \in ScalarKeys THEN doc[s]
     ELSE [k \in {x \in DOMAIN doc[s] : doc[s][x] # Undefined} |-> doc[s][k]]]

\* settings.<section>.<key> as JavaScript reads it
Field(doc, section, key) ==
  IF section \in DOMAIN doc /\ key \in DOMAIN doc[section]
  THEN doc[section][key] ELSE Undefined

\* part_008 lines 247-259 (index.tsx lines 212-224): widgetProps, in key order
SavePropKeys ==
  << "primaryColor", "theme", "fontSize", "borderRadius", "defaultView", "calendarView",
     "showHeader", "headerTitle", "compactMode", "language", "animations" >>
SaveProp(doc, name) ==
  IF name = "theme"
  THEN IF Field(doc, "appearance", "theme") = Undefined THEN "light"
       ELSE Field(doc, "appearance", "theme")
  ELSE IF name \in {"primaryColor", "fontSize", "borderRadius"}
  THEN Field(doc, "appearance", name)
  ELSE IF name = "language" THEN Field(doc, "behavior", "language")
  ELSE IF name = "animations" THEN Field(doc, "behavior", "animationsEnabled")
  ELSE Field(doc, "layout", name)

\* the toasts (hooks/useToast: showSuccess, showError, showInfo)
SuccessToast == "success: Settings saved successfully"
SaveErrorToast == "error: Failed to save settings"
LoadErrorToast == "error: Failed to load settings"
ResetToast == "info: Settings reset to last saved state"

\* how the POST or GET on /settings/ui-preferences ends
Outcomes == {"ok", "non2xx", "network"}
\* api.ts lines 392-399 (axios in part_009): the promise resolves on a 2xx
\* response and rejects on a non-2xx response and on a network error
Resolves_Always(outcome) == TRUE

Resolves(outcome) == outcome = "ok"

\* part_008 lines 239-243 (index.tsx lines 204-208, part_009 lines 151-154):
\* saveSettings up to its await; the body is built when the call is made
saveSettings ==
  /\ ~isSaving                           \* the Save button is disabled otherwise
  /\ Events < MaxEvents
  /\ isSaving' = TRUE
  /\ save' = [pc |-> "backend", settings |-> settings, outcome |-> "pending"]
  /\ posts' = Append(posts, JSONstringify(settings))
  /\ UNCHANGED <<identityVars, requestVars, simpleVars, clientVars, widgetCalls, providerVars,
                 urlVars,
                 app, settings,
                 showSuccessMessage,
                 panel, toasts, edits, pushes, hostProps, loads>>

\* part_008 lines 265-267 and 271-273: the success branch, then finally
SaveSucceeds ==
  /\ showSuccessMessage' = TRUE
  /\ toasts' = Append(toasts, SuccessToast)
  /\ isSaving' = FALSE

\* the catch block without the error toast and with the success toast
SaveFails_SuccessToast ==
  /\ toasts' = Append(toasts, SuccessToast)
  /\ isSaving' = FALSE
  /\ UNCHANGED showSuccessMessage

\* part_008 lines 268-273 (part_009 lines 158-161): catch, then finally
SaveFails ==
  /\ toasts' = Append(toasts, SaveErrorToast)
  /\ isSaving' = FALSE
  /\ UNCHANGED showSuccessMessage

\* part_008 lines 243-273 (index.tsx lines 208-238, part_009 lines 154-161):
\* the backend call of saveSettings settles
SaveBackendSettles(outcome) ==
  /\ save.pc = "backend"
  /\ IF ~Resolves(outcome)
     THEN /\ SaveFails
          /\ save' = [save EXCEPT !.pc = "idle", !.outcome = outcome]
     ELSE IF app = "part_009" \/ ~isWixEnvironment
     THEN /\ SaveSucceeds
          /\ save' = [save EXCEPT !.pc = "idle", !.outcome = outcome]
     ELSE IF app = "part_008"
     THEN \* line 261: setWidgetProps is not imported, the call throws
          /\ SaveFails
          /\ save' = [save EXCEPT !.pc = "idle", !.outcome = outcome]
     ELSE /\ save' = [save EXCEPT !.pc = "widget", !.outcome = outcome]
          /\ UNCHANGED <<isSaving, showSuccessMessage, toasts>>
  /\ UNCHANGED <<identityVars, requestVars, simpleVars, clientVars, widgetCalls, providerVars,
                 urlVars,
                 app, settings,
                 panel, edits, pushes,
                 hostProps, posts, loads>>

\* how many of the props setWidgetProps writes before a setProp fails: none
\* (also: no client), the first only, or all
WrittenCounts == {0, 1, Len(SavePropKeys)}

\* index.tsx line 226 with wixEditor.ts lines 73-89: setWidgetProps writes the
\* props in order until one setProp fails, never throws
SaveWidgetPropsSettle(n) ==
  /\ save.pc = "widget"
  /\ hostProps' = [k \in {SavePropKeys[j] : j \in 1..n} |-> SaveProp(save.settings, k)]
                    @@ hostProps
  /\ SaveSucceeds
  /\ save' = [save EXCEPT !.pc = "idle"]
  /\ UNCHANGED <<identityVars, requestVars, simpleVars, clientVars, widgetCalls, providerVars,
                 urlVars,
                 app, settings,
                 panel, edits, pushes,
                 posts, loads>>

\* part_008 line 267: the timer hides the success banner
HideSuccessMessage ==
  /\ showSuccessMessage
  /\ showSuccessMessage' = FALSE
  /\ UNCHANGED <<identityVars, requestVars, simpleVars, clientVars, widgetCalls, providerVars,
                 urlVars,
                 app, settings,
                 isSaving, panel,
                 toasts, edits, pushes, hostProps, save, posts, loads>>

\* the documents GET /settings/ui-preferences answers with (api.ts lines
\* 374-381): whole sections, a section with some of its keys, the auth block
\* and the premium plan name
SavedAuth == [compId |-> "api-comp", instanceToken |-> "api-inst", instanceId |-> "api-iid"]
LoadDocuments ==
  { [appearance |-> ("primaryColor" :> "#saved") @@ DefaultAppearance,
     auth |-> SavedAuth, premiumPlanName |-> "pro"],
    [layout |-> [headerTitle |-> "Saved title"],
     appearance |-> ("primaryColor" :> "#newer") @@ DefaultAppearance] }
\* what the await of loadSettings yields: a document, null, or a rejection
LoadResults ==
  {[kind |-> "data", data |-> d] : d \in LoadDocuments}
    \cup {[kind |-> "null", data |-> <<>>], [kind |-> "rejected", data |-> <<>>]}

\* a loadSettings invocation whose await has not settled
Pending == [kind |-> "pending", data |-> <<>>]

\* useState('') of dashboardUrl: no URL yet
NoUrl == DashboardUrl(None, None, None, None, None, None)

\* data.auth as an AuthInfo (null when the response has no auth block)
AuthOf(data) ==
  IF "auth" \in DOMAIN data
  THEN AuthInfo(data.auth.compId, data.auth.instanceToken, data.auth.instanceId)
  ELSE NullAuthInfo

\* part_008 lines 107-115: the auth info of the response, completed from
\* wix-integration's getCompId() and getInstanceToken()
effectiveAuth(data) ==
  AuthInfo(JsOr(AuthOf(data).compId, compId),
           JsOr(AuthOf(data).instanceToken, instanceToken),
           AuthOf(data).instanceId)

\* the merge with the spread the other way round: the held values win
mergeSettings_KeepsPrev(prev, data) == prev @@ data

\* a section of the response is merged into the section held, field by field
mergeSettings_DeepMerge(prev, data) ==
  [s \in DOMAIN prev \cup DOMAIN data |->
     IF s \notin DOMAIN data THEN prev[s]
     ELSE IF s \in DOMAIN prev /\ s \in DOMAIN DefaultSettings(app)
     THEN data[s] @@ prev[s]
     ELSE data[s]]

\* part_008 lines 143-146 (index.tsx lines 128-131, part_009 lines 141-144):
\* { ...prev, ...data }
mergeSettings(prev, data) == data @@ prev

\* part_008 lines 98-102 (index.tsx lines 106-110, part_009 lines 137-139):
\* loadSettings up to its await. The first invocation is the load on mount;
\* the later ones are the reloads of part_008 lines 203-228 and, in part_009,
\* the Reset button (lines 164-167)
loadSettings ==
  /\ Events < MaxEvents
  /\ loads' = Append(loads, Pending)
  /\ toasts' = IF app = "part_009" /\ Len(loads) > 0 THEN Append(toasts, ResetToast)
               ELSE toasts
  /\ UNCHANGED <<identityVars, requestVars, simpleVars, clientVars, widgetCalls, providerVars,
                 urlVars,
                 app, settings,
                 isSaving,
                 showSuccessMessage, panel, edits, pushes, hostProps, save, posts>>

\* the catch block as part_009 has it (lines 146-148): logged, no toast
LoadFails_Silent ==
  UNCHANGED <<toasts, settings, panel, cachedAuthInfo, sessionStorage>>

\* part_008 lines 151-154 (index.tsx lines 136-139, part_009 lines 146-148):
\* the catch block of loadSettings
LoadFails ==
  /\ toasts' = IF app = "part_009" THEN toasts ELSE Append(toasts, LoadErrorToast)
  /\ UNCHANGED <<settings, panel, cachedAuthInfo, sessionStorage>>

\* part_008 lines 102-154 (index.tsx lines 110-139, part_009 lines 139-148):
\* the await of loadSettings settles
LoadSettles(n, r) ==
  /\ n \in 1..Len(loads)
  /\ loads[n] = Pending
  /\ loads' = [loads EXCEPT ![n] = r]
  /\ IF r.kind = "rejected"
     THEN LoadFails
     ELSE IF r.kind = "null"
     THEN UNCHANGED <<settings, panel, cachedAuthInfo, sessionStorage, toasts>>
     ELSE /\ settings' = mergeSettings(settings, r.data)
          /\ UNCHANGED toasts
          /\ IF app = "part_008"
             THEN /\ cachedAuthInfo' = effectiveAuth(r.data)
                  /\ sessionStorage' = mirrorAuthInfo(effectiveAuth(r.data))
                  /\ panel' =
                       [dashboardUrl |-> buildDashboardUrl_part002(effectiveAuth(r.data)),
                        instanceId |-> JsOr(effectiveAuth(r.data).instanceId,
                                            panel.instanceId),
                        premiumPlan |-> IF "premiumPlanName" \in DOMAIN r.data
                                        THEN JsOr(r.data.premiumPlanName, panel.premiumPlan)
                                        ELSE panel.premiumPlan]
             ELSE IF app = "index.tsx" /\ ~AuthOf(r.data).null
             THEN /\ cachedAuthInfo' = AuthOf(r.data)
                  /\ sessionStorage' = mirrorAuthInfo(AuthOf(r.data))
                  /\ panel' = [panel EXCEPT
                                 !.dashboardUrl = buildDashboardUrl_part002(AuthOf(r.data))]
             ELSE UNCHANGED <<panel, cachedAuthInfo, sessionStorage>>
  /\ UNCHANGED <<identityVars, requestVars, simpleVars, clientVars, widgetCalls, providerVars,
                 utils,
                 parentFrame,
                 authUpdates, dashboard, app, isSaving, showSuccessMessage, edits,
                 pushes, hostProps, save, posts>>

\* ------------------------------------------------------------------ api.ts (lines 1-366)
\* localStorage as an earlier visit left it
LocalStorages ==
  { [wixCompId |-> None, wixInstance |-> None],
    [wixCompId |-> "local-comp", wixInstance |-> None],
    [wixCompId |-> "local-comp", wixInstance |-> "local-inst"] }

\* lines 35-47: getWixClient yields null when createClient throws, or a
\* client that has fetchWithAuth or lacks it
SiteClients == {None, "client", "client.fetchWithAuth"}

\* the options the callers pass (lines 203-366) and a caller that names
\* the parameters compId and instance itself
CallerOptions ==
  { [method |-> "GET", params |-> <<>>],
    [method |-> "GET", params |-> ("_t" :> "now")],
    [method |-> "POST", params |-> ("compId" :> "caller-comp") @@ ("instance" :> "caller-inst")] }

\* sessionStorage.getItem(key) || localStorage.getItem(key)
getItem(key) == JsOr(sessionStorage[key], localStorage[key])

\* lines 50-64: getWixHeaders; X-Tenant-Id `${c}_${i}` is the pair <<c, i>>
getWixHeaders ==
  [XWixCompId |-> getItem("wixCompId"),
   XWixInstance |-> getItem("wixInstance"),
   XTenantId |-> <<JsOr(getItem("wixCompId"), "default"),
                   JsOr(getItem("wixInstance"), "default")>>]

\* lines 67-77: getWixParams of api.ts
getWixParams_api ==
  ("compId" :> JsOr(getItem("wixCompId"), "default")) @@
  ("instance" :> JsOr(getItem("wixInstance"), "default"))

\* lines 92-121: the request interceptor: the params axios sends
interceptor_CallerParamsKept(params) == params @@ getWixParams_api

interceptor(params) == getWixParams_api @@ params

\* lines 183-193: the axios fallback of invocation n, whose wixParams were
\* read when it started
axiosRequest(n, options, wixParams) ==
  outbound' = Append(outbound,
    [call |-> n, path |-> "axios", headers |-> getWixHeaders,
     params |-> interceptor(options.params @@ wixParams)])

\* lines 142-170 (178-193 without fetchWithAuth): makeAuthenticatedRequest up
\* to its first await
makeAuthenticatedRequest(options) ==
  /\ Len(calls) + authUpdates < MaxCalls
  /\ IF siteClient = "client.fetchWithAuth"
     THEN /\ outbound' = Append(outbound,
               [call |-> Len(calls) + 1, path |-> "fetchWithAuth",
                headers |-> getWixHeaders, params |-> getWixParams_api])
          /\ calls' = Append(calls, [pc |-> "fetchWithAuth", options |-> options,
                                     wixParams |-> getWixParams_api])
     ELSE /\ axiosRequest(Len(calls) + 1, options, getWixParams_api)
          /\ calls' = Append(calls, [pc |-> "axios", options |-> options,
                                     wixParams |-> getWixParams_api])
  /\ UNCHANGED <<identityVars, requestVars, urlVars, formVars, simpleVars,
                 widgetCalls, providerVars, localStorage, siteClient>>

\* lines 159-177: fetchWithAuth settles; a rejection, or a body that is not
\* JSON, leads to the axios fallback
FetchWithAuthSettles(n, outcome) ==
  /\ n \in 1..Len(calls)
  /\ calls[n].pc = "fetchWithAuth"
  /\ IF outcome = "json"
     THEN /\ calls' = [calls EXCEPT ![n].pc = "returned"]
          /\ UNCHANGED outbound
     ELSE /\ calls' = [calls EXCEPT ![n].pc = "axios"]
          /\ axiosRequest(n, calls[n].options, calls[n].wixParams)
  /\ UNCHANGED <<identityVars, requestVars, urlVars, formVars, simpleVars,
                 widgetCalls, providerVars, localStorage, siteClient>>

\* lines 193-199: the axios request settles
AxiosSettles(n, outcome) ==
  /\ n \in 1..Len(calls)
  /\ calls[n].pc = "axios"
  /\ calls' = [calls EXCEPT ![n].pc = IF outcome = "ok" THEN "returned" ELSE "threw"]
  /\ UNCHANGED <<identityVars, requestVars, urlVars, formVars, simpleVars,
                 widgetCalls, providerVars, localStorage, siteClient, outbound>>

\* ------------------------------------------------------------------ SimpleSettings.tsx
\* lines 9-20: the initial settings
SimpleDefaults ==
  [title |-> "Yoga Classes & Events", defaultView |-> "calendar", showHeader |-> "true",
   enableBookings |-> "true", primaryColor |-> "#6B46C1", fontSize |-> "14",
   borderRadius |-> "8", language |-> "en", timeFormat |-> "12h",
   enableAnimations |-> "false"]

\* the calls of updateSetting the form's inputs make
SimpleEdits ==
  { <<"title", "My studio">>, <<"showHeader", "false">>, <<"fontSize", "16">> }

\* bodies the backend answers GET /settings/widget-config with
WidgetConfigs ==
  { [general |-> [title |-> "Stored title", language |-> "de"],
     appearance |-> [layout |-> "list", showHeader |-> "false", primaryColor |-> "#000000"],
     features |-> [enableBooking |-> "false"]],
    [general |-> [title |-> ""]] }

\* lines 47-51 and 118-121: ...(simpleInstanceId && { 'X-Instance-Id': simpleInstanceId })
InstanceHeader(id) == IF Truthy(id) THEN id ELSE None

\* x || dflt
OrDefault(x, dflt) == IF x \in {Undefined, None, ""} THEN dflt ELSE x
\* x !== false
NotFalse(x) == IF x = "false" THEN "false" ELSE "true"

\* lines 56-67: the settings fetchSettings stores; local is the settings of
\* the render whose fetchSettings runs
FromWidgetConfig(data, local) ==
  [title |-> OrDefault(Field(data, "general", "title"), "Yoga Classes & Events"),
   defaultView |-> OrDefault(Field(data, "appearance", "layout"), "calendar"),
   showHeader |-> NotFalse(Field(data, "appearance", "showHeader")),
   enableBookings |-> NotFalse(Field(data, "features", "enableBooking")),
   primaryColor |-> OrDefault(Field(data, "appearance", "primaryColor"), "#6B46C1"),
   fontSize |-> local.fontSize,
   borderRadius |-> local.borderRadius,
   language |-> OrDefault(Field(data, "general", "language"), "en"),
   timeFormat |-> local.timeFormat,
   enableAnimations |-> local.enableAnimations]

\* lines 101-114: the payload handleSave posts
Payload(st) ==
  [general |-> [title |-> st.title, language |-> st.language],
   appearance |-> [layout |-> st.defaultView, showHeader |-> st.showHeader,
                   primaryColor |-> st.primaryColor],
   features |-> [enableBooking |-> st.enableBookings]]

SimpleSuccess == "Settings saved successfully!"
SimpleError == "Failed to save settings. Please try again."

\* lines 30-52: the mount effect.  setInstanceId takes effect with the next
\* render; fetchSettings is the function of the first render, whose
\* simpleInstanceId is the initial state
MountSimpleSettings ==
  /\ fetchPc = "unmounted"
  /\ simpleInstanceId' = IF Truthy(location.instance) THEN location.instance ELSE simpleInstanceId
  /\ loading' = TRUE
  /\ widgetConfig' = Append(widgetConfig,
       [method |-> "GET", instanceHeader |-> InstanceHeader(simpleInstanceId),
        body |-> <<>>, state |-> "pending"])
  /\ fetchPc' = "pending"
  /\ UNCHANGED <<identityVars, requestVars, urlVars, formVars, clientVars, widgetCalls,
                 providerVars,
                 saving, simpleSettings, message>>

\* the GET of the mount effect whose response is awaited
PendingGet ==
  CHOOSE n \in 1..Len(widgetConfig) :
    widgetConfig[n].method = "GET" /\ widgetConfig[n].state = "pending"

\* lines 54-73: the GET settles; the closure's settings are the initial ones
FetchSettingsSettles(outcome, data) ==
  /\ fetchPc = "pending"
  /\ widgetConfig' = [widgetConfig EXCEPT ![PendingGet].state = outcome]
  /\ simpleSettings' = IF outcome = "ok" THEN FromWidgetConfig(data, SimpleDefaults)
                       ELSE simpleSettings
  /\ loading' = FALSE
  /\ fetchPc' = "done"
  /\ UNCHANGED <<identityVars, requestVars, urlVars, formVars, clientVars, widgetCalls,
                 providerVars,
                 simpleInstanceId, saving, message>>

\* lines 148-150; the inputs are rendered once loading is false (lines 152-158)
updateSimpleSetting(key, value) ==
  /\ fetchPc # "unmounted"
  /\ ~loading
  /\ simpleSettings' = [simpleSettings EXCEPT ![key] = value]
  /\ UNCHANGED <<identityVars, requestVars, urlVars, formVars, clientVars, widgetCalls,
                 providerVars,
                 simpleInstanceId, loading, saving, message, fetchPc, widgetConfig>>

\* lines 95-123 and 168: handleSave up to its await; the Save button is
\* rendered once loading is false and is disabled while saving
handleSave ==
  /\ fetchPc # "unmounted"
  /\ ~loading
  /\ ~saving
  /\ Len(widgetConfig) < MaxSimpleRequests
  /\ saving' = TRUE
  /\ widgetConfig' = Append(widgetConfig,
       [method |-> "POST", instanceHeader |-> InstanceHeader(simpleInstanceId),
        body |-> Payload(simpleSettings), state |-> "pending"])
  /\ UNCHANGED <<identityVars, requestVars, urlVars, formVars, clientVars, widgetCalls,
                 providerVars,
                 simpleInstanceId, loading, simpleSettings, message, fetchPc>>

\* the POSTs of handleSave that have not settled
PendingPosts ==
  {n \in 1..Len(widgetConfig) :
     widgetConfig[n].method = "POST" /\ widgetConfig[n].state = "pending"}

\* the POST settles, and saving is reset on success only
HandleSaveSettles_StaysSaving(n, outcome) ==
  /\ n \in PendingPosts
  /\ widgetConfig' = [widgetConfig EXCEPT ![n].state = outcome]
  /\ message' = IF outcome = "ok" THEN SimpleSuccess ELSE SimpleError
  /\ saving' = (outcome # "ok")
  /\ UNCHANGED <<identityVars, requestVars, urlVars, formVars, clientVars, widgetCalls,
                 providerVars,
                 simpleInstanceId, loading, simpleSettings, fetchPc>>

\* lines 125-145: the POST of request n settles
HandleSaveSettles(n, outcome) ==
  /\ n \in PendingPosts
  /\ widgetConfig' = [widgetConfig EXCEPT ![n].state = outcome]
  /\ message' = IF outcome = "ok" THEN SimpleSuccess ELSE SimpleError
  /\ saving' = FALSE
  /\ UNCHANGED <<identityVars, requestVars, urlVars, formVars, clientVars, widgetCalls,
                 providerVars,
                 simpleInstanceId, loading, simpleSettings, fetchPc>>

\* lines 4-20: the panel is closed; the component it opens next starts from
\* its useState defaults, the message div (lines 127-131) stays in the document
CloseSimpleSettings ==
  /\ fetchPc = "done"
  /\ ~saving
  /\ Len(widgetConfig) < MaxSimpleRequests
  /\ simpleInstanceId' = None
  /\ loading' = TRUE
  /\ simpleSettings' = SimpleDefaults
  /\ fetchPc' = "unmounted"
  /\ UNCHANGED <<identityVars, requestVars, urlVars, formVars, clientVars, widgetCalls,
                 providerVars, saving, message, widgetConfig>>

\* ------------------------------------------------------------------ updateWidgetConfig
\* the three functions that write a config to the widget props:
\* updateWidgetConfig of wix-integration.ts (lines 146-170) and of part_003
\* (lines 130-155), setWidgetProps of wixEditor.ts (lines 73-89)
WidgetWriters == {"wix-integration.ts", "part_003", "wixEditor.ts"}

\* Object.entries(config) of the configs handed over
Configs ==
  { << <<"headerTitle", "Studio">> >>,
    << <<"primaryColor", "#111111">>, <<"headerTitle", "Classes">> >> }
ConfigKeys(config) == {config[j][1] : j \in 1..Len(config)}
\* part_003 line 153: JSON.stringify(config)
ConfigJson(config) ==
  IF Len(config) = 1 THEN "{headerTitle:Studio}"
  ELSE "{primaryColor:#111111,headerTitle:Classes}"

\* wix-integration.ts lines 147-150 (wixEditor.ts lines 75-76): the writer
\* returns false at once without a client that has widget.setProp; part_003
\* (lines 143-148) starts its loop in either case
StartWrite(writer, config, client) ==
  [writer |-> writer, config |-> config, client |-> client, at |-> 1,
   success |-> TRUE, failed |-> FALSE, written |-> {},
   ret |-> IF writer # "part_003" /\ ~client THEN "false" ELSE "pending"]

\* the invocation starts; the client of wixEditor.ts is its own
\* (initializeWixEditor, lines 15-33), created or not
callUpdateWidgetConfig(writer, config, client) ==
  /\ Len(widgetCalls) < MaxWidgetCalls
  /\ writer \in {integration, "wixEditor.ts"}
  /\ writer # "wixEditor.ts" => client = (wixClient # None /\ hasWidgetSetProp)
  /\ widgetCalls' = Append(widgetCalls, StartWrite(writer, config, client))
  /\ UNCHANGED <<identityVars, requestVars, urlVars, formVars, simpleVars, clientVars,
                 providerVars>>

\* wix-integration.ts lines 160-169 (wixEditor.ts lines 79-88): after one
\* setProp of the loop; a rejection ends the loop in the catch block
AfterSetProp(c, ok) ==
  IF ~ok THEN [c EXCEPT !.failed = TRUE, !.ret = "false"]
  ELSE [c EXCEPT !.written = @ \cup {c.config[c.at][1]},
                 !.at = @ + 1,
                 !.ret = IF c.at = Len(c.config) THEN "true" ELSE "pending"]

\* the result of the property is not recorded in success
AfterUpdateWidgetProperty_Forgets(c, result) ==
  IF c.at <= Len(c.config)
  THEN [c EXCEPT !.written = IF result THEN @ \cup {c.config[c.at][1]} ELSE @,
                 !.failed = @ \/ (c.client /\ ~result),
                 !.at = @ + 1]
  ELSE [c EXCEPT !.ret = IF c.success THEN "true" ELSE "false"]

\* part_003 lines 143-155: after one updateWidgetProperty; the loop goes on
\* after a failure, and the write of 'config' that follows the loop does not
\* count
AfterUpdateWidgetProperty(c, result) ==
  IF c.at <= Len(c.config)
  THEN [c EXCEPT !.written = IF result THEN @ \cup {c.config[c.at][1]} ELSE @,
                 !.success = @ /\ result,
                 !.failed = @ \/ (c.client /\ ~result),
                 !.at = @ + 1]
  ELSE [c EXCEPT !.ret = IF c.success THEN "true" ELSE "false"]

\* the pending await of invocation n settles: widget.setProp resolved (ok)
\* or rejected; part_003 lines 129-140 call it only with a client
WidgetSetPropSettles(n, ok) ==
  /\ n \in 1..Len(widgetCalls)
  /\ widgetCalls[n].ret = "pending"
  /\ LET c == widgetCalls[n]
         result == c.client /\ ok
         key == IF c.at <= Len(c.config) THEN c.config[c.at][1] ELSE "config"
         value == IF c.at <= Len(c.config) THEN c.config[c.at][2]
                  ELSE ConfigJson(c.config)
     IN /\ hostProps' = IF result THEN (key :> value) @@ hostProps ELSE hostProps
        /\ widgetCalls' = [widgetCalls EXCEPT ![n] =
                             IF c.writer = "part_003"
                             THEN AfterUpdateWidgetProperty(c, result)
                             ELSE AfterSetProp(c, result)]
  /\ UNCHANGED <<identityVars, requestVars, urlVars, simpleVars, clientVars, providerVars,
                 app, settings, isSaving, showSuccessMessage, panel, toasts, edits,
                 pushes, save, posts, loads>>

\* ------------------------------------------------------------------ WixProvider
\* src/src/providers/WixProvider.tsx and its copy src/unnamed/part_005
ProviderFiles == {"WixProvider.tsx", "part_005"}
\* window.Wix (with or without Dashboard), whether dashboard.host() or
\* dashboard.getHost() fails, and the ids the SDK methods return (None: the
\* method is missing or returns nothing)
WixHosts ==
  { [Wix |-> w, Dashboard |-> d, componentId |-> c, instanceId |-> i] :
      w \in BOOLEAN, d \in BOOLEAN,
      c \in {None, "sdk-comp"}, i \in {None, "sdk-inst"} }
\* WixProvider.tsx lines 42-46 (part_005 lines 29-33): the state of the first
\* render, which the effect with the empty dependency list closes over
FirstRender ==
  [wixClient |-> None, instance |-> None, compId |-> None,
   isWixEnvironment |-> FALSE, dashboardSDK |-> None]
ProviderUnmounted ==
  /\ providerFile = "WixProvider.tsx"
  /\ wixHost = [Wix |-> FALSE, Dashboard |-> FALSE, componentId |-> None, instanceId |-> None]
  /\ provider = FirstRender
  /\ initWixRuns = <<>>

\* WixProvider.tsx line 52 (part_005 line 39)
isInWix == parentFrame.framed \/ wixHost.Wix
\* WixProvider.tsx line 57 (part_005 line 44): window.Wix?.Dashboard
hasDashboard == wixHost.Wix /\ wixHost.Dashboard

\* provider state and session storage, threaded through one initWix
ProviderAndStorage(p, st) == [provider |-> p, storage |-> st]

\* WixProvider.tsx lines 59-79 (part_005 lines 46-60): the SDK's ids
WithSdkIds(ps) ==
  LET p1 == [ps.provider EXCEPT !.dashboardSDK = "sdk"]
      p2 == IF Truthy(wixHost.componentId)
            THEN [p1 EXCEPT !.compId = wixHost.componentId] ELSE p1
      s2 == IF Truthy(wixHost.componentId)
            THEN [ps.storage EXCEPT !.wixCompId = wixHost.componentId] ELSE ps.storage
      p3 == IF Truthy(wixHost.instanceId)
            THEN [p2 EXCEPT !.instance = wixHost.instanceId] ELSE p2
      s3 == IF Truthy(wixHost.instanceId)
            THEN [s2 EXCEPT !.wixInstance = wixHost.instanceId] ELSE s2
  IN ProviderAndStorage(p3, s3)

\* WixProvider.tsx lines 86-88 (part_005 lines 64-66)
urlCompId == JsOr(location.compId, location.comp_id)
urlInstance == location.instance

\* WixProvider.tsx lines 90-98 (part_005 lines 68-76): compId and instance
\* are the constants of the render that created the effect
WithUrlParams(ps) ==
  LET takeCompId == ~Truthy(FirstRender.compId) /\ Truthy(urlCompId)
      takeInstance == ~Truthy(FirstRender.instance) /\ Truthy(urlInstance)
      p1 == IF takeCompId THEN [ps.provider EXCEPT !.compId = urlCompId] ELSE ps.provider
      s1 == IF takeCompId THEN [ps.storage EXCEPT !.wixCompId = urlCompId] ELSE ps.storage
      p2 == IF takeInstance THEN [p1 EXCEPT !.instance = urlInstance] ELSE p1
      s2 == IF takeInstance THEN [s1 EXCEPT !.wixInstance = urlInstance] ELSE s1
  IN ProviderAndStorage(p2, s2)

\* WixProvider.tsx lines 123-127 (part_005 lines 101-105): outside Wix
WithStored(ps) ==
  LET p1 == IF Truthy(ps.storage.wixCompId)
            THEN [ps.provider EXCEPT !.compId = ps.storage.wixCompId] ELSE ps.provider
      p2 == IF Truthy(ps.storage.wixInstance)
            THEN [p1 EXCEPT !.instance = ps.storage.wixInstance] ELSE p1
  IN ProviderAndStorage(p2, ps.storage)

CreateOutcomes == {"client", "throws"}
\* WixProvider.tsx lines 86-120 (part_005 lines 64-98): from the URL
\* parameters to the await of parseFromUrl, or to the end without it
FromUrlParams(n, sdkResult, ps0, created) ==
  LET ps == WithUrlParams(ps0)
      awaits == created = "client" /\ Truthy(urlInstance)
  IN /\ sessionStorage' = ps.storage
     /\ provider' = IF created = "client" /\ ~awaits
                    THEN [ps.provider EXCEPT !.wixClient = "client"] ELSE ps.provider
     /\ initWixRuns' =
          [i \in 1..n |->
             IF i < n THEN initWixRuns[i]
             ELSE [pc |-> IF awaits THEN "parseFromUrl" ELSE "done", sdk |-> sdkResult]]

\* WixProvider.tsx lines 49-132 (part_005 lines 36-110): initWix up to its
\* first await; the mount effect calls it, and so does each wixSDKReady event
initWix(hostOk, created) ==
  /\ Len(initWixRuns) < MaxInitWixRuns
  /\ LET n == Len(initWixRuns) + 1
         ps0 == ProviderAndStorage([provider EXCEPT !.isWixEnvironment = isInWix],
                                   sessionStorage)
     IN IF ~isInWix
        THEN /\ provider' = WithStored(ps0).provider
             /\ initWixRuns' = Append(initWixRuns, [pc |-> "done", sdk |-> "absent"])
             /\ UNCHANGED sessionStorage
        ELSE IF ~hasDashboard
        THEN FromUrlParams(n, "absent", ps0, created)
        ELSE IF providerFile = "part_005"
        THEN /\ provider' = ps0.provider
             /\ initWixRuns' = Append(initWixRuns, [pc |-> "getHost", sdk |-> "pending"])
             /\ UNCHANGED sessionStorage
        ELSE IF hostOk
        THEN FromUrlParams(n, "ok", WithSdkIds(ps0), created)
        ELSE FromUrlParams(n, "threw", ps0, created)
  /\ UNCHANGED <<identityVars, requestVars, formVars, simpleVars, clientVars, widgetCalls,
                 utils, cachedAuthInfo, parentFrame, authUpdates, dashboard,
                 providerFile, wixHost>>

\* part_005 lines 45-61: dashboard.getHost() settles; a rejection reaches the
\* catch of line 107, past the URL parameters and createClient
GetHostSettles(n, hostOk, created) ==
  /\ n \in 1..Len(initWixRuns)
  /\ initWixRuns[n].pc = "getHost"
  /\ IF hostOk
     THEN LET ps == WithSdkIds(ProviderAndStorage(provider, sessionStorage))
              after == WithUrlParams(ps)
              awaits == created = "client" /\ Truthy(urlInstance)
          IN /\ sessionStorage' = after.storage
             /\ provider' = IF created = "client" /\ ~awaits
                            THEN [after.provider EXCEPT !.wixClient = "client"]
                            ELSE after.provider
             /\ initWixRuns' = [initWixRuns EXCEPT ![n] =
                                  [pc |-> IF awaits THEN "parseFromUrl" ELSE "done",
                                   sdk |-> "ok"]]
     ELSE /\ initWixRuns' = [initWixRuns EXCEPT ![n] = [pc |-> "done", sdk |-> "threw"]]
          /\ UNCHANGED <<provider, sessionStorage>>
  /\ UNCHANGED <<identityVars, requestVars, formVars, simpleVars, clientVars, widgetCalls,
                 utils, cachedAuthInfo, parentFrame, authUpdates, dashboard,
                 providerFile, wixHost>>

\* WixProvider.tsx lines 112-120 (part_005 lines 90-98): parseFromUrl settles;
\* setWixClient follows only when it resolved
ParseFromUrlSettles(n, ok) ==
  /\ n \in 1..Len(initWixRuns)
  /\ initWixRuns[n].pc = "parseFromUrl"
  /\ provider' = IF ok THEN [provider EXCEPT !.wixClient = "client"] ELSE provider
  /\ initWixRuns' = [initWixRuns EXCEPT ![n].pc = "done"]
  /\ UNCHANGED <<identityVars, requestVars, urlVars, formVars, simpleVars, clientVars,
                 widgetCalls, providerFile, wixHost>>

\* ------------------------------------------------------------------ specification
\* the settings form as mounted, nothing loaded, edited or saved yet
FormMounted ==
  /\ settings = DefaultSettings(app)
  /\ isSaving = FALSE
  /\ showSuccessMessage = FALSE
  /\ panel = [dashboardUrl |-> NoUrl, premiumPlan |-> "free", instanceId |-> None]
  /\ toasts = <<>>
  /\ edits = <<>>
  /\ pushes = <<>>
  /\ hostProps = <<>>
  /\ save = [pc |-> "idle", settings |-> DefaultSettings(app), outcome |-> "none"]
  /\ posts = <<>>
  /\ loads = <<>>

\* SimpleSettings before its mount effect has run (lines 6-20)
SimpleUnmounted ==
  /\ simpleInstanceId = None
  /\ loading = TRUE
  /\ saving = FALSE
  /\ simpleSettings = SimpleDefaults
  /\ message = None
  /\ fetchPc = "unmounted"
  /\ widgetConfig = <<>>

\* api.ts with no makeAuthenticatedRequest made yet
ClientIdle ==
  /\ calls = <<>>
  /\ outbound = <<>>
  /\ widgetCalls = <<>>
  /\ ProviderUnmounted

Init ==
  /\ SimpleUnmounted
  /\ localStorage = [wixCompId |-> None, wixInstance |-> None]
  /\ siteClient = None
  /\ ClientIdle
  /\ integration \in Integrations
  /\ location \in {u \in InstanceUrls : u.instance # ""}
  /\ sdk \in [widget : BOOLEAN, fetchWithAuth : BOOLEAN]
  /\ widgetProps \in [compId : PropCompIds, instance : PropInstances]
  /\ wixClient = None
  /\ instanceToken = None
  /\ compId = None
  /\ isInitialized = FALSE
  /\ genCount = 0
  /\ initPc = [i \in InitCalls |-> "idle"]
  /\ initRet = [i \in InitCalls |-> "pending"]
  /\ initArg = [i \in InitCalls |-> None]
  /\ existingCompId = [i \in InitCalls |-> Unread]
  /\ reqPc = [k \in Requests |-> "idle"]
  /\ reqMethod = [k \in Requests |-> None]
  /\ sent = {}
  /\ utils = "part_002"
  /\ sessionStorage = [wixCompId |-> None, wixInstance |-> None]
  /\ cachedAuthInfo = NullAuthInfo
  /\ parentFrame \in {f \in ParentFrames : ~f.readable /\ f.framed}
  /\ authUpdates = 0
  /\ dashboard = {}
  /\ app = "part_008"
  /\ FormMounted

Next ==
  \/ LoadWixIntegration
  \/ \E i \in InitCalls : LaterInitCall(i)
  \/ \E i \in InitCalls : GetCompIdSettles(i)
  \/ \E i \in InitCalls : GetInstanceSettles(i)
  \/ \E i \in InitCalls : SetCompIdSettles(i)
  \/ \E k \in Requests, m \in Methods :
       /\ IF k = 1 THEN TRUE ELSE reqPc[k - 1] # "idle"   \* in the order issued
       /\ apiRequest(k, m)
  \/ \E k \in Requests : fetchWithAuth(k)
  \/ \E k \in Requests : SdkFetchSettles(k)
  \/ \E k \in Requests : PlainFetchSettles(k)

Spec == Init /\ [][Next]_vars

\* identity resolution for the dashboard URL: the load of wix-integration.ts,
\* its initialisation, setAuthInfo and buildDashboardUrl
InitUrl ==
  /\ SimpleUnmounted
  /\ localStorage = [wixCompId |-> None, wixInstance |-> None]
  /\ siteClient = None
  /\ ClientIdle
  /\ integration = "wix-integration.ts"
  /\ location \in PageUrls
  /\ sdk = [widget |-> TRUE, fetchWithAuth |-> TRUE]
  /\ widgetProps = [compId |-> None, instance |-> "prop-inst"]
  /\ wixClient = None
  /\ instanceToken = None
  /\ compId = None
  /\ isInitialized = FALSE
  /\ genCount = 0
  /\ initPc = [i \in InitCalls |-> "idle"]
  /\ initRet = [i \in InitCalls |-> "pending"]
  /\ initArg = [i \in InitCalls |-> None]
  /\ existingCompId = [i \in InitCalls |-> Unread]
  /\ reqPc = [k \in Requests |-> "idle"]
  /\ reqMethod = [k \in Requests |-> None]
  /\ sent = {}
  /\ utils \in UtilsCopies
  /\ sessionStorage \in SessionStorages
  /\ cachedAuthInfo = NullAuthInfo
  /\ parentFrame \in {f \in ParentFrames : f.framed = f.readable}
  /\ authUpdates = 0
  /\ dashboard = {}
  /\ app = "part_008"
  /\ FormMounted

\* the invocations of initializeWixClient at module load: the
\* auto-initialisation and api.ts's initPromise
LoadInitCalls == {1, 2}

NextUrl ==
  \/ LoadWixIntegration
  \/ \E i \in LoadInitCalls : LaterInitCall(i)
  \/ \E i \in LoadInitCalls : GetCompIdSettles(i)
  \/ \E i \in LoadInitCalls : GetInstanceSettles(i)
  \/ \E i \in LoadInitCalls : SetCompIdSettles(i)
  \/ \E a \in AuthInfos : setAuthInfo(a)
  \/ \E a \in AuthInfos \cup {NullAuthInfo}, b \in BaseUrls : buildDashboardUrl(a, b)

SpecUrl == InitUrl /\ [][NextUrl]_vars

\* the settings form once wix-integration.ts has initialised: the client was
\* created and the generated id saved in the widget props, or createClient
\* threw and the fallback id is held
Initialised ==
  /\ integration = "wix-integration.ts"
  /\ sdk = [widget |-> TRUE, fetchWithAuth |-> TRUE]
  /\ wixClient \in {None, "client"}
  /\ widgetProps = [compId |-> IF wixClient = None THEN None ELSE generateCompId(1),
                    instance |-> None]
  /\ instanceToken = JsOr(location.instance, None)
  /\ compId = generateCompId(1)
  /\ isInitialized = TRUE
  /\ genCount = 1
  /\ initPc = [i \in InitCalls |-> "done"]
  /\ initRet = [i \in InitCalls |->
                  IF i = 1 /\ wixClient = None THEN "false" ELSE "true"]
  /\ initArg = [i \in InitCalls |->
                  IF i = 1 /\ wixClient # None THEN generateCompId(1) ELSE None]
  /\ existingCompId = [i \in InitCalls |->
                         IF i = 1 /\ wixClient # None THEN None ELSE Unread]

InitForm ==
  /\ SimpleUnmounted
  /\ localStorage = [wixCompId |-> None, wixInstance |-> None]
  /\ siteClient = None
  /\ ClientIdle
  /\ location \in {u \in InstanceUrls : u.instance # ""}
  /\ Initialised
  /\ reqPc = [k \in Requests |-> "idle"]
  /\ reqMethod = [k \in Requests |-> None]
  /\ sent = {}
  /\ utils = "part_002"
  /\ sessionStorage = [wixCompId |-> None, wixInstance |-> None]
  /\ cachedAuthInfo = NullAuthInfo
  /\ parentFrame \in {f \in ParentFrames : ~f.framed}
  /\ authUpdates = 0
  /\ dashboard = {}
  /\ app \in Apps
  \* part_009 reads neither the page URL nor the client, index.tsx not the client
  /\ app = "part_009" => location.instance = None /\ wixClient = None
  /\ app = "index.tsx" => wixClient = "client"
  \* outside the Wix environment part_008 does not use the client either
  /\ (app = "part_008" /\ location.instance = None) => wixClient = None
  /\ FormMounted

NextForm ==
  \/ \E c \in EditCalls : updateSetting(c[1], c[2], c[3])
  \/ \E j \in 1..MaxEvents : PreviewSetPropSettles(j)
  \/ saveSettings
  \/ \E o \in Outcomes : SaveBackendSettles(o)
  \/ \E n \in WrittenCounts : SaveWidgetPropsSettle(n)
  \/ HideSuccessMessage
  \/ loadSettings
  \/ \E n \in 1..MaxEvents, r \in LoadResults : LoadSettles(n, r)

SpecForm == InitForm /\ [][NextForm]_vars

\* SimpleSettings is mounted in a page of its own; the other modules are at
\* rest after initialisation
AtRest ==
  /\ Initialised
  /\ wixClient = "client"
  /\ reqPc = [k \in Requests |-> "idle"]
  /\ reqMethod = [k \in Requests |-> None]
  /\ sent = {}
  /\ utils = "part_002"
  /\ cachedAuthInfo = NullAuthInfo
  /\ parentFrame \in {f \in ParentFrames : ~f.framed}
  /\ authUpdates = 0
  /\ dashboard = {}
  /\ app = "part_008"
  /\ FormMounted

InitSimple ==
  /\ location \in InstanceUrls
  /\ AtRest
  /\ sessionStorage = [wixCompId |-> None, wixInstance |-> None]
  /\ localStorage = [wixCompId |-> None, wixInstance |-> None]
  /\ siteClient = None
  /\ ClientIdle
  /\ SimpleUnmounted

FetchOutcomes == {"ok", "non2xx", "network"}

NextSimple ==
  \/ MountSimpleSettings
  \/ \E o \in FetchOutcomes, d \in WidgetConfigs : FetchSettingsSettles(o, d)
  \/ \E c \in SimpleEdits : updateSimpleSetting(c[1], c[2])
  \/ handleSave
  \/ \E n \in 1..MaxSimpleRequests, o \in FetchOutcomes : HandleSaveSettles(n, o)

SpecSimple == InitSimple /\ [][NextSimple]_vars

\* the request wrapper of api.ts (lines 1-366), with a load storing the
\* response's auth block in between
InitClient ==
  /\ location \in {u \in InstanceUrls : u.instance = None}
  /\ AtRest
  /\ sessionStorage \in SessionStorages
  /\ localStorage \in LocalStorages
  /\ siteClient \in SiteClients
  /\ ClientIdle
  /\ SimpleUnmounted

NextClient ==
  \/ \E o \in CallerOptions : makeAuthenticatedRequest(o)
  \/ \E n \in 1..MaxCalls, o \in {"json", "rejected"} : FetchWithAuthSettles(n, o)
  \/ \E n \in 1..MaxCalls, o \in {"ok", "rejected"} : AxiosSettles(n, o)
  \/ Len(calls) + authUpdates < MaxCalls /\ setAuthInfo(AuthInfo("api-comp", None, None))

SpecClient == InitClient /\ [][NextClient]_vars

\* saving alone: the Save button of the settings form and the one of
\* SimpleSettings
NextSave ==
  \/ saveSettings
  \/ \E o \in Outcomes : SaveBackendSettles(o)
  \/ \E n \in WrittenCounts : SaveWidgetPropsSettle(n)
  \/ MountSimpleSettings
  \/ \E d \in WidgetConfigs : FetchSettingsSettles("ok", d)
  \/ handleSave
  \/ \E n \in 1..MaxSimpleRequests, o \in FetchOutcomes : HandleSaveSettles(n, o)

SpecSave == InitForm /\ [][NextSave]_vars

\* the writers of the widget props, after an initialisation that created a
\* client or not, with a widget module that has setProp or not
InitWidget ==
  /\ integration \in Integrations
  /\ location \in {u \in InstanceUrls : u.instance = "url-inst"}
  /\ sdk \in {[widget |-> w, fetchWithAuth |-> TRUE] : w \in BOOLEAN}
  /\ wixClient \in {None, "client"}
  /\ widgetProps = [compId |-> None, instance |-> None]
  /\ instanceToken = "url-inst"
  /\ compId = generateCompId(1)
  /\ isInitialized = TRUE
  /\ genCount = 1
  /\ initPc = [i \in InitCalls |-> "done"]
  /\ initRet = [i \in InitCalls |-> IF wixClient = None THEN "false" ELSE "true"]
  /\ initArg = [i \in InitCalls |-> None]
  /\ existingCompId = [i \in InitCalls |-> Unread]
  /\ reqPc = [k \in Requests |-> "idle"]
  /\ reqMethod = [k \in Requests |-> None]
  /\ sent = {}
  /\ utils = "part_002"
  /\ sessionStorage = [wixCompId |-> None, wixInstance |-> None]
  /\ cachedAuthInfo = NullAuthInfo
  /\ parentFrame \in {f \in ParentFrames : ~f.framed}
  /\ authUpdates = 0
  /\ dashboard = {}
  /\ app = "part_008"
  /\ FormMounted
  /\ localStorage = [wixCompId |-> None, wixInstance |-> None]
  /\ siteClient = None
  /\ ClientIdle
  /\ SimpleUnmounted

NextWidget ==
  \/ \E w \in WidgetWriters, c \in Configs, a \in BOOLEAN : callUpdateWidgetConfig(w, c, a)
  \/ \E n \in 1..MaxWidgetCalls, ok \in BOOLEAN : WidgetSetPropSettles(n, ok)

SpecWidget == InitWidget /\ [][NextWidget]_vars

\* the WixProvider component alone: its mount and the wixSDKReady events
InitProvider ==
  /\ integration = "wix-integration.ts"
  /\ location \in PageUrls
  /\ sdk = [widget |-> TRUE, fetchWithAuth |-> TRUE]
  /\ wixClient = "client"
  /\ widgetProps = [compId |-> None, instance |-> None]
  /\ instanceToken = "url-inst"
  /\ compId = generateCompId(1)
  /\ isInitialized = TRUE
  /\ genCount = 1
  /\ initPc = [i \in InitCalls |-> "done"]
  /\ initRet = [i \in InitCalls |-> IF wixClient = None THEN "false" ELSE "true"]
  /\ initArg = [i \in InitCalls |-> None]
  /\ existingCompId = [i \in InitCalls |-> Unread]
  /\ reqPc = [k \in Requests |-> "idle"]
  /\ reqMethod = [k \in Requests |-> None]
  /\ sent = {}
  /\ utils = "part_002"
  /\ sessionStorage \in SessionStorages
  /\ cachedAuthInfo = NullAuthInfo
  /\ parentFrame \in ParentFrames
  /\ authUpdates = 0
  /\ dashboard = {}
  /\ app = "part_008"
  /\ FormMounted
  /\ localStorage = [wixCompId |-> None, wixInstance |-> None]
  /\ siteClient = None
  /\ calls = <<>>
  /\ outbound = <<>>
  /\ widgetCalls = <<>>
  /\ providerFile \in ProviderFiles
  /\ wixHost \in {h \in WixHosts :
                    /\ h.Dashboard => h.Wix
                    /\ ~h.Dashboard => h.componentId = None /\ h.instanceId = None}
  /\ provider = FirstRender
  /\ initWixRuns = <<>>
  /\ SimpleUnmounted

NextProvider ==
  \/ \E hostOk \in BOOLEAN, created \in CreateOutcomes : initWix(hostOk, created)
  \/ \E n \in 1..MaxInitWixRuns, hostOk \in BOOLEAN, created \in CreateOutcomes :
       GetHostSettles(n, hostOk, created)
  \/ \E n \in 1..MaxInitWixRuns, ok \in BOOLEAN : ParseFromUrlSettles(n, ok)

SpecProvider == InitProvider /\ [][NextProvider]_vars

\* the header title typed into the form in the Wix environment, and the
\* preview pushes that follow
TitleEdits == {"Edited title", "Second title"}
InitPreview ==
  /\ InitForm
  /\ app = "part_008"
  /\ isWixEnvironment

NextPreview ==
  \/ \E v \in TitleEdits : updateSetting("layout", "headerTitle", v)
  \/ \E j \in 1..MaxEvents : PreviewSetPropSettles(j)

SpecPreview == InitPreview /\ [][NextPreview]_vars

\* SimpleSettings saved, closed and opened again over a backend that answers
\* the GET with the payload of the last POST it accepted
RoundTripEdits ==
  { <<"title", "">>, <<"showHeader", "false">>, <<"fontSize", "16">> }
SavedPosts ==
  {n \in 1..Len(widgetConfig) :
     widgetConfig[n].method = "POST" /\ widgetConfig[n].state = "ok"}
LastSaved == widgetConfig[CHOOSE n \in SavedPosts : \A m \in SavedPosts : m <= n].body
StoredConfigs == IF SavedPosts = {} THEN WidgetConfigs ELSE {LastSaved}

NextRoundTrip ==
  \/ MountSimpleSettings
  \/ \E o \in FetchOutcomes, d \in StoredConfigs : FetchSettingsSettles(o, d)
  \/ \E c \in RoundTripEdits : updateSimpleSetting(c[1], c[2])
  \/ handleSave
  \/ \E n \in 1..MaxSimpleRequests, o \in FetchOutcomes : HandleSaveSettles(n, o)
  \/ CloseSimpleSettings

SpecRoundTrip == InitSimple /\ [][NextRoundTrip]_vars

C2_InitAlwaysYieldsCompId ==
  \A i \in InitCalls :
    initPc[i] = "done" =>
      /\ Truthy(compId)
      /\ compId \in (PropCompIds \ {None}) \/ IsGenerated(compId)
      /\ initRet[i] \in {"true", "false"}

\* createClient threw in the auto-initialisation and the fallback id is held
C2_Witness ==
  initPc[1] = "done" /\ initRet[1] = "false" /\ IsGenerated(compId)

\* C3: once the in-memory component id is non-null it never changes.
C3_CompIdNeverChanges ==
  [][Truthy(compId) => compId' = compId]_vars

\* C6: a request goes through the SDK's fetchWithAuth when the client has it,
\* otherwise through plain fetch; a plain-fetch request carries
\* 'Authorization: Bearer <token>' whenever an instance token is known.
C6_BearerOnPlainFetch ==
  \A r \in sent :
    /\ r.sdkAvailable => \E q \in sent : q.req = r.req /\ q.via = "sdk"
    /\ ~r.sdkAvailable => r.via = "plain"
    /\ (r.via = "plain" /\ Truthy(r.heldToken)) =>
         r.authorization = AuthorizationHeader(r.heldToken)

\* the first source, in the order API auth info, session storage, URL, that
\* holds a value
FirstAvailable(api, stored, url) == JsOr(JsOr(api, stored), url)
\* the API-provided auth info a call of buildDashboardUrl can see
ApiAuth(b) == IF b.authInfo.null THEN b.cached ELSE b.authInfo

\* C4: buildDashboardUrl (the copies with API auth info, part_000 and part_002)
\* takes compId and instance from the API-provided auth info, else from session
\* storage, else from the URL: whenever one of the three holds a value, the
\* built URL carries the value of the first that does.
C4_FixedPriority ==
  \A b \in dashboard :
    utils \in {"part_000", "part_002"} =>
      LET wantCompId == FirstAvailable(ApiAuth(b).compId, b.stored.wixCompId,
                                       getWixParams.compId)
          wantInstance == FirstAvailable(ApiAuth(b).instanceToken, b.stored.wixInstance,
                                         getWixParams.instance)
      IN /\ Truthy(wantCompId) => b.url.compId = wantCompId
         /\ Truthy(wantInstance) => b.url.instance = wantInstance

\* C5: with a (non-empty) `instance` parameter in the page URL, the module-level
\* instanceToken is that value from the load on, also after initializeWixClient
\* read the widget prop 'instance'; and a dashboard URL built with no wixInstance
\* in session storage and no API auth info carries it as `instance`.
C5_UrlInstanceWins ==
  Truthy(location.instance) =>
    /\ initPc[1] # "idle" => instanceToken = location.instance
    /\ \A b \in dashboard :
         (~Truthy(b.stored.wixInstance) /\ b.cached.null /\ b.authInfo.null) =>
           b.url.instance = location.instance

\* the initialisation has read a widget prop 'instance' that differs from the
\* URL's, and a dashboard URL was built from the URL parameter
C5_Witness ==
  /\ location.instance = "url-inst"
  /\ widgetProps.instance = "prop-inst"
  /\ initPc[1] = "done" /\ initRet[1] = "true"
  /\ instanceToken = "url-inst"
  /\ \E b \in dashboard : /\ ~Truthy(b.stored.wixInstance) /\ b.cached.null
                          /\ b.authInfo.null /\ b.url.instance = "url-inst"

\* C7: updateSetting(section, key, value) sets settings[section][key] to value
\* and leaves every other key of every section as it was; it sends nothing to
\* the backend: the only step that posts to /settings/ui-preferences is the
\* start of saveSettings.
C7_UpdateSettingFrame ==
  [][/\ Len(edits') > Len(edits) =>
          LET e == edits'[Len(edits')]
          IN /\ settings'[e.section][e.key] = e.value
             /\ DOMAIN settings' = DOMAIN settings
             /\ \A s \in DOMAIN settings : s # e.section => settings'[s] = settings[s]
             /\ DOMAIN settings'[e.section] = DOMAIN settings[e.section] \cup {e.key}
             /\ \A k \in DOMAIN settings[e.section] :
                  k # e.key => settings'[e.section][k] = settings[e.section][k]
             /\ posts' = posts /\ loads' = loads /\ save' = save
     /\ Len(posts') > Len(posts) => ~isSaving /\ isSaving' /\ save'.pc = "backend"
    ]_vars

\* a field was edited in part_008 in the Wix environment, the edit is in the
\* settings and was previewed, and nothing was posted
C7_Witness ==
  /\ app = "part_008" /\ isWixEnvironment
  /\ Len(edits) >= 2 /\ Len(pushes) > 0 /\ posts = <<>>
  /\ edits[1].section = edits[2].section /\ edits[1].key # edits[2].key
  /\ settings[edits[1].section][edits[1].key] = edits[1].value
  /\ settings[edits[2].section][edits[2].key] = edits[2].value

\* the widget prop a previewed field goes under
FlatName(key) == IF key = "animationsEnabled" THEN "animations" ELSE key
\* the updates handed to updateWidgetConfig for the n-th updateSetting
HandedFor(n) == {j \in 1..Len(pushes) : pushes[j].edit = n}

\* C8: (part_008) an updateSetting on a whitelisted field in the Wix environment
\* hands updateWidgetConfig one update with exactly one entry, flattened name ->
\* value; any other updateSetting hands it nothing, and the host store holds
\* only entries of updates that were handed over and written.
C8_PreviewOneFlattenedEntry ==
  app = "part_008" =>
    /\ \A n \in 1..Len(edits) :
         LET e == edits[n]
         IN IF PreviewKey(e.section, e.key) # None /\ isWixEnvironment
            THEN \E j \in HandedFor(n) :
                   /\ HandedFor(n) = {j}
                   /\ DOMAIN pushes[j].config = {FlatName(e.key)}
                   /\ pushes[j].config[FlatName(e.key)] = e.value
            ELSE HandedFor(n) = {}
    /\ \A k \in DOMAIN hostProps :
         \E j \in 1..Len(pushes) :
           /\ pushes[j].state = "written"
           /\ k = FlatName(edits[pushes[j].edit].key)
           /\ hostProps[k] = edits[pushes[j].edit].value

\* behavior.animationsEnabled was previewed as 'animations' and written, and
\* behavior.autoSave, which is not whitelisted, was edited without a preview
C8_Witness ==
  /\ app = "part_008" /\ isWixEnvironment
  /\ \E n, m \in 1..Len(edits) :
       /\ edits[n].key = "animationsEnabled" /\ edits[m].key = "autoSave"
       /\ \E j \in HandedFor(n) : pushes[j].state = "written"
       /\ HandedFor(m) = {}
  /\ "animations" \in DOMAIN hostProps

AllSections == {"layout", "appearance", "calendar", "behavior", "uiPreferences"}

\* C9: (part_008, index.tsx) the body saveSettings posts is the whole in-memory
\* settings object of the moment Save is pressed, with all five sections.
C9_SavePostsWholeSettings ==
  [][(Len(posts') > Len(posts) /\ app \in {"part_008", "index.tsx"}) =>
       LET body == posts'[Len(posts')]
       IN /\ body = settings
          /\ AllSections \subseteq DOMAIN body
          /\ \A s \in AllSections : DOMAIN body[s] = DOMAIN settings[s]
    ]_vars

\* a save whose body holds an edit made before the click and the auth block
\* and colour merged in by an earlier load
C9_Witness ==
  /\ app = "part_008" /\ Len(posts) = 1
  /\ "auth" \in DOMAIN posts[1]
  /\ posts[1].appearance.primaryColor = "#saved"
  /\ \E n \in 1..Len(edits) :
       /\ edits[n].key = "autoSave"
       /\ edits[n].value # DefaultBehavior.autoSave
       /\ posts[1].behavior.autoSave = edits[n].value

\* C10: when the backend call of saveSettings fails (network error or non-2xx
\* response), the save ends with the toast 'Failed to save settings' and no
\* success toast, the settings as they were and isSaving = false.
C10_FailedSaveReported ==
  [][(save.pc = "backend" /\ save'.pc # "backend" /\ ~Resolves(save'.outcome)) =>
       /\ save'.pc = "idle"
       /\ toasts' = Append(toasts, SaveErrorToast)
       /\ showSuccessMessage' = showSuccessMessage
       /\ settings' = settings
       /\ isSaving' = FALSE
    ]_vars

\* a save of edited settings was answered with a non-2xx response
C10_Witness ==
  /\ save.pc = "idle" /\ save.outcome = "non2xx"
  /\ Len(edits) > 0 /\ settings # DefaultSettings(app)
  /\ toasts = <<SaveErrorToast>>
  /\ ~isSaving

\* C11: (part_008, index.tsx) when the await of loadSettings rejects, the toast
\* 'Failed to load settings' is shown, the settings, the cached auth info (and
\* its mirror in session storage) and the dashboard URL stay as they were, and
\* no further request is issued.
C11_FailedLoadReported ==
  [][\A n \in 1..Len(loads) :
       (/\ app \in {"part_008", "index.tsx"}
        /\ loads[n] = Pending
        /\ loads'[n].kind = "rejected") =>
         /\ toasts' = Append(toasts, LoadErrorToast)
         /\ settings' = settings
         /\ cachedAuthInfo' = cachedAuthInfo
         /\ sessionStorage' = sessionStorage
         /\ panel' = panel
         /\ Len(loads') = Len(loads)
         /\ posts' = posts
    ]_vars

\* a reload failed after an earlier load had merged its data and set the
\* dashboard URL
C11_Witness ==
  /\ app = "part_008"
  /\ Len(loads) = 2
  /\ loads[1].kind = "data" /\ loads[2].kind = "rejected"
  /\ toasts = <<LoadErrorToast>>
  /\ "auth" \in DOMAIN settings
  /\ panel.dashboardUrl # NoUrl
  /\ ~cachedAuthInfo.null

\* C12: when the await of a loadSettings invocation yields a document, every
\* top-level key of that document is what the settings hold afterwards,
\* whichever invocations were issued or answered before: the response that
\* arrives last wins.
C12_LastResponseWins ==
  [][\A n \in 1..Len(loads) :
       (loads[n] = Pending /\ loads'[n].kind = "data") =>
         \A s \in DOMAIN loads'[n].data : settings'[s] = loads'[n].data[s]
    ]_vars

\* two loads answered with different documents, no edit, and the settings hold
\* the appearance section of the first-issued one: its response arrived after
\* the response to the second
C12_Witness ==
  /\ app = "part_008"
  /\ Len(loads) = 2 /\ edits = <<>>
  /\ loads[1].kind = "data" /\ loads[2].kind = "data"
  /\ loads[1].data.appearance # loads[2].data.appearance
  /\ settings.appearance = loads[1].data.appearance

\* C13: every key of the default settings document has a defined value in the
\* in-memory settings (the form edits only such keys, so this is to hold after
\* every load).
C13_DefaultKeysDefined ==
  \A s \in DOMAIN DefaultSettings(app) :
    \A k \in DOMAIN DefaultSettings(app)[s] :
      Field(settings, s, k) # Undefined

\* C14: in SimpleSettings, when the page URL has an instance parameter, every
\* request to /settings/widget-config, the GET issued on mount and each POST
\* of handleSave, carries an X-Instance-Id header equal to that parameter.
C14_InstanceHeaderOnEveryRequest ==
  Truthy(location.instance) =>
    \A n \in 1..Len(widgetConfig) : widgetConfig[n].instanceHeader = location.instance

\* C15: every request makeAuthenticatedRequest sends, through the host's
\* fetchWithAuth or through axios, carries X-Tenant-Id =
\* '<compId or default>_<instance or default>' and the query parameters compId
\* and instance, each read from session storage, else local storage, else
\* 'default'; parameters of these names supplied by the caller do not replace
\* them on the axios path.
StoredOrDefault(key) ==
  IF Truthy(sessionStorage[key]) THEN sessionStorage[key]
  ELSE IF Truthy(localStorage[key]) THEN localStorage[key]
  ELSE "default"
C15_RequestsCarryTenant ==
  [][Len(outbound') > Len(outbound) =>
       LET r == outbound'[Len(outbound')] IN
         /\ r.headers.XTenantId = <<StoredOrDefault("wixCompId"), StoredOrDefault("wixInstance")>>
         /\ r.params["compId"] = StoredOrDefault("wixCompId")
         /\ r.params["instance"] = StoredOrDefault("wixInstance")]_vars
\* both paths were taken by a caller naming compId and instance itself, with
\* session storage rewritten between the two requests
C15_Witness ==
  /\ Len(outbound) = 2
  /\ outbound[1].path = "fetchWithAuth"
  /\ outbound[2].path = "axios"
  /\ outbound[2].call = 1
  /\ "compId" \in DOMAIN calls[1].options.params
  /\ outbound[2].params["compId"] = "api-comp"
  /\ outbound[1].params["compId"] = "local-comp"
  /\ outbound[2].headers.XTenantId = <<"api-comp", "default">>

\* C16: at most one save request is in flight at any time: isSaving (saving in
\* SimpleSettings) is true exactly while a saveSettings (handleSave) started
\* and has not finished, whatever its outcome, and the Save button starts no
\* save while it is true.
C16_OneSaveInFlight ==
  /\ isSaving <=> save.pc # "idle"
  /\ saving <=> PendingPosts # {}
  /\ Cardinality(PendingPosts) <= 1
C16_Witness ==
  /\ app = "part_008"
  /\ isWixEnvironment
  /\ Len(posts) = 2
  /\ save.pc = "backend"
  /\ toasts = <<SaveErrorToast>>
  /\ Len(widgetConfig) = 3
  /\ widgetConfig[2].state = "non2xx"
  /\ PendingPosts = {3}

\* C17: a saveSettings ends with the success toast 'Settings saved
\* successfully' when its backend request succeeded, also when the widget
\* properties could not be updated afterwards, and with the error toast
\* 'Failed to save settings' when the backend request failed.
C17_SuccessToastIffBackendSaved ==
  [][(save.pc # "idle" /\ save'.pc = "idle") =>
       toasts' = Append(toasts, IF save'.outcome = "ok" THEN SuccessToast
                                ELSE SaveErrorToast)]_vars

\* C18: in the Wix environment saveSettings writes widget properties to the
\* host store only once its backend save has resolved, and a save whose
\* backend request is rejected ends without writing any.
C18_PropsAfterBackendSave ==
  [][app = "index.tsx" =>
       /\ hostProps' # hostProps => save.pc = "widget" /\ save.outcome = "ok"
       /\ (save.pc = "backend" /\ save' # save /\ save'.outcome # "ok") =>
            hostProps' = hostProps /\ save'.pc = "idle"]_vars
C18_Witness ==
  /\ app = "index.tsx"
  /\ isWixEnvironment
  /\ Len(posts) = 2
  /\ toasts = <<SaveErrorToast, SuccessToast>>
  /\ save.pc = "idle"
  /\ DOMAIN hostProps = {SavePropKeys[j] : j \in 1..Len(SavePropKeys)}

\* C19: when initializeWixClient runs twice concurrently and the widget props
\* hold no compId, at most one component id is generated: once the
\* invocations have completed the in-memory compId is that id, and no other
\* value was written to the widget prop 'compId'.
NoStoredCompId ==
  /\ widgetProps.compId \in {None, generateCompId(1)}
  /\ \A i \in InitCalls : existingCompId[i] \in {Unread, Threw, None, generateCompId(1)}
C19_OneIdGenerated ==
  NoStoredCompId =>
    /\ genCount <= 1
    /\ \A i \in InitCalls : initArg[i] \in {None, generateCompId(1)}
    /\ (\A i \in InitCalls : initPc[i] = "done") => compId = generateCompId(1)
\* the second invocation generated the id while the first, started before
\* it, was waiting for the host
C19_Witness ==
  /\ integration = "wix-integration.ts"
  /\ initPc[1] = "done" /\ initPc[2] = "done"
  /\ initRet[1] = "true" /\ initRet[2] = "true"
  /\ existingCompId[1] = None /\ existingCompId[2] = None
  /\ initArg[1] = None
  /\ initArg[2] = generateCompId(1)
  /\ widgetProps.compId = generateCompId(1)
  /\ compId = generateCompId(1)
  /\ genCount = 1

\* C20: when getProp('compId') yields a value, that value becomes the
\* in-memory compId and the invocation neither generates an id nor calls
\* setProp('compId', ...); setProp('compId', id) is called exactly when the
\* try block generated the id and the client exposes widget.setProp.
ReadValue(x) == x \notin {Unread, Threw} /\ Truthy(x)
C21_TrueOnlyWithClient ==
  \A i \in InitCalls : initRet[i] = "true" => wixClient # None

\* C22: one call of a state-changing API method (POST, PUT, PATCH, DELETE)
\* sends its request at most once: when the host's fetchWithAuth fails after
\* the request left, the axios fallback does not send it a second time.
StateChanging == {"POST", "PUT", "PATCH", "DELETE"}
C22_SentAtMostOnce ==
  \A n \in 1..Len(calls) :
    calls[n].options.method \in StateChanging =>
      Cardinality({j \in 1..Len(outbound) : outbound[j].call = n}) <= 1

C24_AuthInfoMirrored ==
  [][authUpdates' = authUpdates + 1 =>
       LET a == cachedAuthInfo' IN
         /\ a \in AuthInfos
         /\ sessionStorage'.wixCompId =
              IF Truthy(a.compId) THEN a.compId ELSE sessionStorage.wixCompId
         /\ sessionStorage'.wixInstance =
              IF Truthy(a.instanceToken) THEN a.instanceToken
              ELSE sessionStorage.wixInstance]_vars
\* a second setAuthInfo without a token replaced the cache and left the
\* wixInstance entry of the first
C24_Witness ==
  /\ authUpdates = 2
  /\ cachedAuthInfo = AuthInfo("api-comp", None, None)
  /\ sessionStorage = [wixCompId |-> "api-comp", wixInstance |-> "api-inst"]

\* C25: in WixProvider initialisation, when the host SDK supplied a component
\* id (or instance id) and the URL also carries a compId (or instance)
\* parameter, the SDK-supplied value is the one kept in the provider state and
\* in session storage.
SdkSupplied ==
  /\ initWixRuns # <<>>
  /\ \A n \in 1..Len(initWixRuns) : initWixRuns[n].pc = "done" /\ initWixRuns[n].sdk = "ok"
C25_SdkValueKept ==
  SdkSupplied =>
    /\ (Truthy(wixHost.componentId) /\ Truthy(urlCompId)) =>
         /\ provider.compId = wixHost.componentId
         /\ sessionStorage.wixCompId = wixHost.componentId
    /\ (Truthy(wixHost.instanceId) /\ Truthy(urlInstance)) =>
         /\ provider.instance = wixHost.instanceId
         /\ sessionStorage.wixInstance = wixHost.instanceId

\* C26: when a loadSettings response arrives after the user changed a field
\* with updateSetting and before any Save, the section of the response replaces
\* the whole in-memory section that holds the edit if the response contains
\* that section (the edit is lost), and the section with the edit stays as it
\* was if the response does not contain it.
C26_ResponseReplacesEditedSection ==
  [][\A n \in 1..Len(loads) :
       (/\ loads[n] = Pending
        /\ loads'[n].kind = "data"
        /\ save.pc = "idle" /\ posts = <<>>) =>
         \A e \in 1..Len(edits) :
           LET s == edits[e].section IN
             Field(settings, s, edits[e].key) = edits[e].value =>
               IF s \in DOMAIN loads'[n].data
               THEN settings'[s] = loads'[n].data[s]
               ELSE settings'[s] = settings[s]
    ]_vars

\* headerTitle and animationsEnabled were edited, nothing was saved, and a
\* response with a layout section and no behavior section arrived: the layout
\* section is the response's, the behavior section still holds the edit
C26_Witness ==
  /\ app = "part_008"
  /\ posts = <<>> /\ save.pc = "idle"
  /\ \E e \in 1..Len(edits) : edits[e].section = "layout"
  /\ \E e \in 1..Len(edits) : edits[e].key = "animationsEnabled"
  /\ \E n \in 1..Len(loads) :
       /\ loads[n].kind = "data"
       /\ "layout" \in DOMAIN loads[n].data
       /\ "behavior" \notin DOMAIN loads[n].data
       /\ settings.layout = loads[n].data.layout
  /\ settings.layout.headerTitle # "Edited title"
  /\ settings.behavior.animationsEnabled = "false"

\* C27: the body that saveSettings posts to /settings/ui-preferences never
\* contains the auth identity block (compId, instanceToken, instanceId) nor the
\* premiumPlanName received from an earlier getUIPreferences response; it holds
\* settings sections only.
C27_BodyHoldsSectionsOnly ==
  app = "part_008" =>
    \A n \in 1..Len(posts) :
      /\ "auth" \notin DOMAIN posts[n]
      /\ "premiumPlanName" \notin DOMAIN posts[n]
      /\ DOMAIN posts[n] \subseteq DOMAIN DefaultSettings(app)

\* C28: after any sequence of updateSetting calls on one whitelisted field in
\* the Wix environment, once every resulting widget.setProp call has completed,
\* the value of that field in the host widget-property store equals its current
\* in-memory value.
C28_HostHoldsCurrentValue ==
  (/\ app = "part_008" /\ isWixEnvironment
   /\ edits # <<>>
   /\ \A e \in 1..Len(edits) : edits[e].section = "layout" /\ edits[e].key = "headerTitle"
   /\ Len(pushes) = Len(edits)
   /\ \A j \in 1..Len(pushes) : pushes[j].state \in {"written", "failed"}) =>
    /\ "headerTitle" \in DOMAIN hostProps
    /\ hostProps["headerTitle"] = settings.layout.headerTitle

\* C29: in SimpleSettings, saving and then fetching is a round trip on the
\* persisted fields: when the backend answers fetchSettings with exactly the
\* payload that handleSave sent, title, language, defaultView, showHeader,
\* primaryColor and enableBookings are restored to the saved values (an empty
\* title and false flags included), and the local-only fields fontSize,
\* borderRadius, timeFormat and enableAnimations stay as they were.
C29_SaveFetchRoundTrip ==
  [][(/\ fetchPc = "pending" /\ fetchPc' = "done"
      /\ SavedPosts # {}
      /\ widgetConfig'[PendingGet].state = "ok") =>
       /\ simpleSettings'.title = LastSaved.general.title
       /\ simpleSettings'.language = LastSaved.general.language
       /\ simpleSettings'.defaultView = LastSaved.appearance.layout
       /\ simpleSettings'.showHeader = LastSaved.appearance.showHeader
       /\ simpleSettings'.primaryColor = LastSaved.appearance.primaryColor
       /\ simpleSettings'.enableBookings = LastSaved.features.enableBooking
       /\ \A k \in {"fontSize", "borderRadius", "timeFormat", "enableAnimations"} :
            simpleSettings'[k] = simpleSettings[k]
    ]_vars

====
